---------------------------- MODULE Spec2Model ----------------------------
(***************************************************************************)
(* Image viewer core (src/app.py): file-tree scanner, date heuristics,     *)
(* index cache (_IMAGE_CACHE), pagination (timeline_sections,              *)
(* group_images_payload) and hierarchy (build_hierarchy).                  *)
(*                                                                         *)
(* Strings are sequences of one-character strings, so that tokenising,     *)
(* lower-casing and comparison are computed as the code computes them.     *)
(* The empty sequence stands for both None and "" wherever the code only   *)
(* tests truthiness (cursor, date hint, nextCursor).                       *)
(***************************************************************************)
EXTENDS Integers, Sequences, FiniteSets, TLC

VARIABLES
    fs,     \* root -> set of files on disk, each the list of its path segments
    clock,  \* time.time(), in seconds
    cache,  \* _IMAGE_CACHE
    last,   \* the last completed call: arguments, what it read, what it returned
    chain,  \* a client following nextCursor
    th,     \* per-thread position and locals of a call in progress
    ghost,  \* history: what the published snapshots were built from
    disk    \* the image files' stat and content, and THUMBNAIL_CACHE_DIR

vars == <<fs, clock, cache, last, chain, th, ghost, disk>>

-----------------------------------------------------------------------------
(* Characters and strings                                                   *)

\* Code-point order of the characters that occur in the modelled paths.
OrdSeq == <<" ",",","-",".","/","0","1","2","3","4","5","6","7","8","9","A","B","C","D","E","F","G","H","I","J","K","L","M","N","O","P","Q","R","S","T","U","V","W","X","Y","Z","_","a","b","c","d","e","f","g","h","i","j","k","l","m","n","o","p","q","r","s","t","u","v","w","x","y","z">>

Alphabet == {OrdSeq[i] : i \in 1..Len(OrdSeq)}

CodeOf == [c \in Alphabet |-> CHOOSE i \in 1..Len(OrdSeq) : OrdSeq[i] = c]

DigitChars == <<"0","1","2","3","4","5","6","7","8","9">>

IsDigit(c) == \E i \in 1..10 : DigitChars[i] = c

DigitVal(c) == (CHOOSE i \in 1..10 : DigitChars[i] = c) - 1

UpperToLower == ("A" :> "a") @@ ("B" :> "b") @@ ("C" :> "c") @@ ("D" :> "d") @@ ("E" :> "e") @@ ("F" :> "f") @@ ("G" :> "g") @@ ("H" :> "h") @@ ("I" :> "i") @@ ("J" :> "j") @@ ("K" :> "k") @@ ("L" :> "l") @@ ("M" :> "m") @@ ("N" :> "n") @@ ("O" :> "o") @@ ("P" :> "p") @@ ("Q" :> "q") @@ ("R" :> "r") @@ ("S" :> "s") @@ ("T" :> "t") @@ ("U" :> "u") @@ ("V" :> "v") @@ ("W" :> "w") @@ ("X" :> "x") @@ ("Y" :> "y") @@ ("Z" :> "z")

\* str.lower()
Lower(s) == [i \in 1..Len(s) |-> IF s[i] \in DOMAIN UpperToLower THEN UpperToLower[s[i]] ELSE s[i]]

\* Python's < on str: lexicographic by code point.
StrLess(a, b) ==
    LET n == IF Len(a) < Len(b) THEN Len(a) ELSE Len(b)
        d == {i \in 1..n : a[i] # b[i]}
    IN  IF d = {} THEN Len(a) < Len(b)
        ELSE LET i == CHOOSE k \in d : \A m \in d : k <= m
             IN  CodeOf[a[i]] < CodeOf[b[i]]

\* str.replace(old, new) for single characters.
ReplaceChar(s, old, new) == [i \in 1..Len(s) |-> IF s[i] = old THEN new ELSE s[i]]

\* str.isdigit(): non-empty and all digits.
IsDigitStr(s) == Len(s) > 0 /\ \A i \in 1..Len(s) : IsDigit(s[i])

CountChar(s, c) == Cardinality({i \in 1..Len(s) : s[i] = c})

RECURSIVE IntOf(_)
\* int(str) of a digit string.
IntOf(s) == IF Len(s) = 0 THEN 0
            ELSE IntOf(SubSeq(s, 1, Len(s) - 1)) * 10 + DigitVal(s[Len(s)])

\* f"{n:02d}" for 0 <= n < 100.
Fmt02(n) == <<DigitChars[(n \div 10) + 1], DigitChars[(n % 10) + 1]>>

RECURSIVE SplitOn(_, _, _, _)
SplitOn(s, sep, i, cur) ==
    IF i > Len(s) THEN <<cur>>
    ELSE IF s[i] = sep THEN <<cur>> \o SplitOn(s, sep, i + 1, <<>>)
    ELSE SplitOn(s, sep, i + 1, Append(cur, s[i]))

\* Path(relative).parts of a relative POSIX path.
Parts(p) == SelectSeq(SplitOn(p, "/", 1, <<>>), LAMBDA x : Len(x) > 0)

RECURSIVE JoinParts(_)
JoinParts(ps) == IF Len(ps) = 0 THEN <<>>
                 ELSE IF Len(ps) = 1 THEN ps[1]
                 ELSE ps[1] \o <<"/">> \o JoinParts(Tail(ps))

Reverse(s) == [i \in 1..Len(s) |-> s[Len(s) + 1 - i]]

\* list.sort(): stable.  lt[i][j] says that the sort key of s[i] is less than
\* the sort key of s[j].
StableSort(s, lt) ==
    LET n == Len(s)
        rank == [i \in 1..n |->
                    Cardinality({j \in 1..n : lt[j][i] \/ (~lt[i][j] /\ j < i)}) + 1]
    IN  [k \in 1..n |-> s[CHOOSE i \in 1..n : rank[i] = k]]

\* The key comparisons of a list under key=str.lower.
LowerKeyLess(s) ==
    [i \in 1..Len(s) |-> [j \in 1..Len(s) |-> StrLess(Lower(s[i]), Lower(s[j]))]]

-----------------------------------------------------------------------------
(* Program constants                                                        *)

SUPPORTED_EXTENSIONS == {
    <<".","j","p","g">>,
    <<".","j","p","e","g">>,
    <<".","p","n","g">>,
    <<".","g","i","f">>,
    <<".","b","m","p">>,
    <<".","t","i","f">>,
    <<".","t","i","f","f">>,
    <<".","w","e","b","p">>}

IGNORED_DIRECTORIES == {<<".","T","r","a","s","h","-","1","0","0","0">>}

IMAGE_CACHE_TTL_SECONDS == 30

\* cursor / hint / nextCursor None (and "")
None == <<>>

NoRoot == "None"

NoHierarchy == [none |-> TRUE]

-----------------------------------------------------------------------------
(* File-tree scanner                                                        *)

\* Variant: only the listed names are ignored.
is_ignored_name_listed_only(name) == name \in IGNORED_DIRECTORIES

is_ignored_name(name) == name \in IGNORED_DIRECTORIES \/ (Len(name) > 0 /\ name[1] = ".")

\* PurePath.suffix: from the last dot of the name, unless that dot leads or ends it.
Suffix(name) ==
    LET dots == {i \in 1..Len(name) : name[i] = "."}
    IN  IF dots = {} THEN <<>>
        ELSE LET i == CHOOSE k \in dots : \A m \in dots : m <= k
             IN  IF i = 1 \/ i = Len(name) THEN <<>> ELSE SubSeq(name, i, Len(name))

IsImageName(name) == Lower(Suffix(name)) \in SUPPORTED_EXTENSIONS

IsPrefix(pre, s) == Len(pre) <= Len(s) /\ SubSeq(s, 1, Len(pre)) = pre

\* Names of the files directly in directory dir (a sequence of segments).
FilesIn(files, dir) ==
    {f[Len(dir) + 1] : f \in {g \in files : Len(g) = Len(dir) + 1 /\ IsPrefix(dir, g)}}

\* Names of the subdirectories of dir: a directory exists where a file lies beneath it.
DirsIn(files, dir) ==
    {f[Len(dir) + 1] : f \in {g \in files : Len(g) > Len(dir) + 1 /\ IsPrefix(dir, g)}}

LowerLess(a, b) == StrLess(Lower(a), Lower(b))

\* sorted(names, key=str.lower) of the entries of one directory (names that are
\* equal lower-cased would come in directory order; the fixture has none).
SortedNames(S) ==
    LET rank == [x \in S |-> Cardinality({y \in S : LowerLess(y, x)}) + 1]
    IN  [k \in 1..Cardinality(S) |-> CHOOSE x \in S : rank[x] = k]

RECURSIVE ConcatAll(_)
ConcatAll(ss) == IF Len(ss) = 0 THEN <<>> ELSE ss[1] \o ConcatAll(Tail(ss))

RECURSIVE walk_images(_, _)
\* os.walk(path), top-down, with the pruning and ordering of iter_images_recursive:
\* the images of a directory by lower-cased name, then its non-ignored
\* subdirectories by lower-cased name, depth first.  Yields paths as segment lists.
walk_images(files, dir) ==
    LET here == SortedNames({n \in FilesIn(files, dir) : IsImageName(n)})
        subs == SortedNames({d \in DirsIn(files, dir) : ~is_ignored_name(d)})
    IN  [i \in 1..Len(here) |-> Append(dir, here[i])]
        \o ConcatAll([i \in 1..Len(subs) |-> walk_images(files, Append(dir, subs[i]))])

NoLimit == 0 - 1

\* iter_images_recursive(path, limit): the walk, cut after the limit-th image
\* (the count is tested only after a yield, so at least one image is yielded).
iter_images_recursive(files, dir, limit) ==
    LET all == walk_images(files, dir)
        n   == IF limit = NoLimit THEN Len(all)
               ELSE IF limit < 1 THEN (IF Len(all) > 0 THEN 1 ELSE 0)
               ELSE IF limit < Len(all) THEN limit ELSE Len(all)
    IN  SubSeq(all, 1, n)

-----------------------------------------------------------------------------
(* Date heuristics                                                          *)

RECURSIVE DigitRuns(_, _, _)
\* [tok for tok in re.split(r"\D+", text) if tok]: the maximal digit runs.
DigitRuns(text, i, cur) ==
    IF i > Len(text) THEN (IF Len(cur) = 0 THEN <<>> ELSE <<cur>>)
    ELSE IF IsDigit(text[i]) THEN DigitRuns(text, i + 1, Append(cur, text[i]))
    ELSE (IF Len(cur) = 0 THEN <<>> ELSE <<cur>>) \o DigitRuns(text, i + 1, <<>>)

IsYearToken(tok) ==
    Len(tok) = 4 /\ (SubSeq(tok, 1, 2) = <<"1","9">> \/ SubSeq(tok, 1, 2) = <<"2","0">>)

\* Variant: the day is read from the second run after the year whether or not
\* the run between them was taken as the month.
extract_date_value_day_without_month(text) ==
    LET tokens == DigitRuns(text, 1, <<>>)
        years  == {i \in 1..Len(tokens) : IsYearToken(tokens[i])}
    IN  IF years = {} THEN [has_date |-> FALSE, value |-> 0]
        ELSE LET idx   == CHOOSE k \in years : \A m \in years : k <= m
                 hasM  == idx + 1 <= Len(tokens) /\ Len(tokens[idx + 1]) = 2
                          /\ IntOf(tokens[idx + 1]) >= 1 /\ IntOf(tokens[idx + 1]) <= 12
                 month == IF hasM THEN Fmt02(IntOf(tokens[idx + 1])) ELSE <<"0","0">>
                 hasD  == idx + 2 <= Len(tokens) /\ Len(tokens[idx + 2]) = 2
                          /\ IntOf(tokens[idx + 2]) >= 1 /\ IntOf(tokens[idx + 2]) <= 31
                 day   == IF hasD THEN Fmt02(IntOf(tokens[idx + 2])) ELSE <<"0","0">>
             IN  [has_date |-> TRUE, value |-> IntOf(tokens[idx] \o month \o day)]

\* _extract_date_value(rel_path) -> [has_date, value]
extract_date_value(text) ==
    LET tokens == DigitRuns(text, 1, <<>>)
        years  == {i \in 1..Len(tokens) : IsYearToken(tokens[i])}
    IN  IF years = {} THEN [has_date |-> FALSE, value |-> 0]
        ELSE LET idx   == CHOOSE k \in years : \A m \in years : k <= m
                 hasM  == idx + 1 <= Len(tokens) /\ Len(tokens[idx + 1]) = 2
                          /\ IntOf(tokens[idx + 1]) >= 1 /\ IntOf(tokens[idx + 1]) <= 12
                 month == IF hasM THEN Fmt02(IntOf(tokens[idx + 1])) ELSE <<"0","0">>
                 hasD  == hasM /\ idx + 2 <= Len(tokens) /\ Len(tokens[idx + 2]) = 2
                          /\ IntOf(tokens[idx + 2]) >= 1 /\ IntOf(tokens[idx + 2]) <= 31
                 day   == IF hasD THEN Fmt02(IntOf(tokens[idx + 2])) ELSE <<"0","0">>
             IN  [has_date |-> TRUE, value |-> IntOf(tokens[idx] \o month \o day)]

RECURSIVE guess_from(_, _)
guess_from(parts, i) ==
    IF i < 1 THEN None
    ELSE LET normalized == ReplaceChar(parts[i], "-", "_")
             cleaned    == ReplaceChar(normalized, "_", "-")
         IN  IF Len(normalized) = 4 /\ IsDigitStr(normalized) THEN normalized
             ELSE IF Len(normalized) >= 8 /\ IsDigitStr(SubSeq(normalized, 1, 4))
                     /\ CountChar(cleaned, "-") >= 2 THEN cleaned
             ELSE guess_from(parts, i - 1)

\* guess_date_hint(relative_path): the path's segments, leaf first.
guess_date_hint(p) == guess_from(Parts(p), Len(Parts(p)))

-----------------------------------------------------------------------------
(* Index cache: the flat sorted list                                        *)

\* Variant: the dated block compared by path alone.
DatedLess_path_only(a, b) == StrLess(Lower(a.path), Lower(b.path))

DatedLess(a, b) ==
    a.value < b.value \/ (a.value = b.value /\ StrLess(Lower(a.path), Lower(b.path)))

\* The relative paths of the images iter_images_recursive(root) yields, in walk
\* order.
RelativePaths(files) ==
    LET walked == iter_images_recursive(files, <<>>, NoLimit)
    IN  [i \in 1..Len(walked) |-> JoinParts(walked[i])]

\* (value, relative) for every path walked.
tagged_paths(rels) ==
    [i \in 1..Len(rels) |-> [value |-> extract_date_value(rels[i]).value, path |-> rels[i]]]

\* dated.sort(...); undated.sort(...); [path for _value, path in dated] + undated
sorted_blocks(dated, undated) ==
    LET dsorted == StableSort(dated, [i \in 1..Len(dated) |->
                                  [j \in 1..Len(dated) |-> DatedLess(dated[i], dated[j])]])
    IN  [i \in 1..Len(dated) |-> dsorted[i].path] \o StableSort(undated, LowerKeyLess(undated))

\* sorted_image_paths, the rebuild branch over the relative paths walked: split on
\* has_date, sort both blocks, concatenate.
sort_scanned(rels) ==
    sorted_blocks(SelectSeq(tagged_paths(rels), LAMBDA x : extract_date_value(x.path).has_date),
                  SelectSeq(rels, LAMBDA x : ~extract_date_value(x).has_date))

scan_sorted_paths(files) == sort_scanned(RelativePaths(files))

\* Variant: descending order as the plain reverse of the ascending list.
order_view_reverse_all(cache_paths, order) ==
    IF order = "asc" THEN cache_paths ELSE Reverse(cache_paths)

\* sorted_image_paths, after the cache: the list as served for the order.
order_view(cache_paths, order) ==
    IF order = "asc" THEN cache_paths
    ELSE LET dated_paths   == SelectSeq(cache_paths, LAMBDA x : extract_date_value(x).has_date)
             undated_paths == SelectSeq(cache_paths, LAMBDA x : ~extract_date_value(x).has_date)
         IN  Reverse(dated_paths) \o undated_paths

\* The test of the cache-hit branch of sorted_image_paths.
paths_cache_hit_ttl_inclusive(c, root, now) ==
    c.root = root /\ now - c.generated <= IMAGE_CACHE_TTL_SECONDS

paths_cache_hit_any_root(c, root, now) ==
    c.root # NoRoot /\ now - c.generated < IMAGE_CACHE_TTL_SECONDS

\* The condition at line 344.
paths_cache_hit(c, root, now) ==
    c.root = root /\ now - c.generated < IMAGE_CACHE_TTL_SECONDS

\* sorted_image_paths past a failed cache test, with the list the scan built:
\* the three writes and the return.
paths_rebuilt(c, root, now, order, cache_paths) ==
    [cache     |-> [c EXCEPT !.root = root, !.generated = now, !.paths = cache_paths],
     ret       |-> order_view(cache_paths, order),
     rescanned |-> TRUE]

\* sorted_image_paths(root, order) run to completion against cache c at time now:
\* the cache afterwards, the list returned, and whether the tree was rescanned.
sorted_image_paths(c, files, root, now, order) ==
    IF paths_cache_hit(c, root, now)
    THEN [cache |-> c, ret |-> order_view(c.paths, order), rescanned |-> FALSE]
    ELSE paths_rebuilt(c, root, now, order, scan_sorted_paths(files))

-----------------------------------------------------------------------------
(* Calendar labels: _parse_date_label, format_display_date,                 *)
(* format_date_value                                                        *)

\* calendar.month_name[1..12]; the abbreviations are their first three letters.
MonthNames == <<
    <<"J","a","n","u","a","r","y">>,
    <<"F","e","b","r","u","a","r","y">>,
    <<"M","a","r","c","h">>,
    <<"A","p","r","i","l">>,
    <<"M","a","y">>,
    <<"J","u","n","e">>,
    <<"J","u","l","y">>,
    <<"A","u","g","u","s","t">>,
    <<"S","e","p","t","e","m","b","e","r">>,
    <<"O","c","t","o","b","e","r">>,
    <<"N","o","v","e","m","b","e","r">>,
    <<"D","e","c","e","m","b","e","r">>>>

MonthAbbr == [m \in 1..12 |-> SubSeq(MonthNames[m], 1, 3)]

NoDate == [ok |-> FALSE]

IsLeap(year) == year % 4 = 0 /\ (year % 100 # 0 \/ year % 400 = 0)

DaysInMonth(year, month) ==
    IF month = 2 THEN (IF IsLeap(year) THEN 29 ELSE 28)
    ELSE IF month \in {4, 6, 9, 11} THEN 30 ELSE 31

\* datetime(year, month, day), None on ValueError.
build_date(year, month, day) ==
    IF /\ year >= 1 /\ year <= 9999
       /\ month >= 1 /\ month <= 12
       /\ day >= 1 /\ day <= DaysInMonth(year, month)
    THEN [ok |-> TRUE, year |-> year, month |-> month, day |-> day]
    ELSE NoDate

RECURSIVE StrOfNat(_)
\* str(n) for n >= 0.
StrOfNat(n) ==
    IF n < 10 THEN <<DigitChars[n + 1]>>
    ELSE Append(StrOfNat(n \div 10), DigitChars[(n % 10) + 1])

\* str.strip() where the only whitespace is the space.
Strip(s) ==
    LET keep == {i \in 1..Len(s) : s[i] # " "}
    IN  IF keep = {} THEN <<>>
        ELSE SubSeq(s, CHOOSE i \in keep : \A j \in keep : i <= j,
                       CHOOSE i \in keep : \A j \in keep : j <= i)

\* The words of s between runs of spaces.
Words(s) == SelectSeq(SplitOn(s, " ", 1, <<>>), LAMBDA x : Len(x) > 0)

\* The month a word names under %B (full) or %b (abbreviated), ignoring case; 0
\* if none.
MonthOf(word, full) ==
    LET hits == {m \in 1..12 :
                    Lower(word) = Lower(IF full THEN MonthNames[m] ELSE MonthAbbr[m])}
    IN  IF hits = {} THEN 0 ELSE CHOOSE m \in hits : TRUE

\* A word %d accepts: one or two digits with value 1..31.
IsDayWord(w) == IsDigitStr(w) /\ Len(w) <= 2 /\ IntOf(w) >= 1 /\ IntOf(w) <= 31

\* A word %Y accepts: four digits.
IsYearWord(w) == IsDigitStr(w) /\ Len(w) = 4

\* datetime.strptime(text, fmt) for the six formats of _parse_date_label, given
\* by the place of the month word, whether it is the full name, and whether a
\* comma follows the day; None on ValueError.
strptime(words, month_at, full, comma) ==
    IF Len(words) # 3 THEN NoDate
    ELSE LET mword == words[month_at]
             dword == words[IF month_at = 1 THEN 2 ELSE 1]
             day   == IF comma THEN SubSeq(dword, 1, Len(dword) - 1) ELSE dword
         IN  IF /\ MonthOf(mword, full) # 0
                /\ (comma => Len(dword) >= 1 /\ dword[Len(dword)] = ",")
                /\ IsDayWord(day)
                /\ IsYearWord(words[3])
             THEN build_date(IntOf(words[3]), MonthOf(mword, full), IntOf(day))
             ELSE NoDate

\* The formats in the order the loop tries them: "%B %d %Y", "%b %d %Y",
\* "%B %d, %Y", "%b %d, %Y", "%d %B %Y", "%d %b %Y".
DateFormats ==
    <<[month_at |-> 1, full |-> TRUE,  comma |-> FALSE],
      [month_at |-> 1, full |-> FALSE, comma |-> FALSE],
      [month_at |-> 1, full |-> TRUE,  comma |-> TRUE],
      [month_at |-> 1, full |-> FALSE, comma |-> TRUE],
      [month_at |-> 2, full |-> TRUE,  comma |-> FALSE],
      [month_at |-> 2, full |-> FALSE, comma |-> FALSE]>>

RECURSIVE try_formats(_, _)
try_formats(words, i) ==
    IF i > Len(DateFormats) THEN NoDate
    ELSE IF strptime(words, DateFormats[i].month_at, DateFormats[i].full,
                     DateFormats[i].comma).ok
         THEN strptime(words, DateFormats[i].month_at, DateFormats[i].full,
                       DateFormats[i].comma)
         ELSE try_formats(words, i + 1)

\* re.fullmatch(r"(\d{4})-(\d{1,2})-(\d{1,2})", cleaned), on the fields between
\* the hyphens.
IsYmd(fields) ==
    /\ Len(fields) = 3
    /\ IsDigitStr(fields[1]) /\ Len(fields[1]) = 4
    /\ IsDigitStr(fields[2]) /\ Len(fields[2]) <= 2
    /\ IsDigitStr(fields[3]) /\ Len(fields[3]) <= 2

\* _parse_date_label past the fullmatch, with the digits of the label.
parse_digits_or_words(normalized, digits) ==
    IF /\ Len(digits) >= 8
       /\ build_date(IntOf(SubSeq(digits, 1, 4)), IntOf(SubSeq(digits, 5, 6)),
                     IntOf(SubSeq(digits, 7, 8))).ok
    THEN build_date(IntOf(SubSeq(digits, 1, 4)), IntOf(SubSeq(digits, 5, 6)),
                    IntOf(SubSeq(digits, 7, 8)))
    ELSE try_formats(Words(normalized), 1)

\* _parse_date_label of a stripped, non-empty label, with the fields of the
\* cleaned label between hyphens.
parse_normalized(normalized, fields) ==
    IF IsYmd(fields)
    THEN build_date(IntOf(fields[1]), IntOf(fields[2]), IntOf(fields[3]))
    ELSE parse_digits_or_words(normalized, SelectSeq(normalized, IsDigit))

_parse_date_label(text) ==
    IF Strip(text) = <<>> THEN NoDate
    ELSE parse_normalized(Strip(text),
             SplitOn(ReplaceChar(ReplaceChar(ReplaceChar(Strip(text), "_", "-"),
                                             "/", "-"), ".", "-"),
                     "-", 1, <<>>))

\* f"{date_obj:%B} {date_obj.day}, {date_obj.year}"
display_of(date_obj) ==
    MonthNames[date_obj.month] \o <<" ">> \o StrOfNat(date_obj.day) \o <<",", " ">>
        \o StrOfNat(date_obj.year)

\* format_display_date(label); None is the empty string.
format_display_date(label) ==
    IF _parse_date_label(label).ok THEN display_of(_parse_date_label(label)) ELSE None

RECURSIVE ReplaceSpaceZero(_)
\* str.replace(" 0", " ")
ReplaceSpaceZero(s) ==
    IF Len(s) < 2 THEN s
    ELSE IF s[1] = " " /\ s[2] = "0" THEN <<" ">> \o ReplaceSpaceZero(SubSeq(s, 3, Len(s)))
    ELSE <<s[1]>> \o ReplaceSpaceZero(Tail(s))

\* datetime(...).strftime("%B %d, %Y")
strftime_long(date_obj) ==
    MonthNames[date_obj.month] \o <<" ">> \o Fmt02(date_obj.day) \o <<",", " ">>
        \o StrOfNat(date_obj.year)

\* format_date_value(value); None is the empty string.
format_date_value(value) ==
    IF value <= 0 THEN None
    ELSE IF build_date(value \div 10000, (value % 10000) \div 100, value % 100).ok
    THEN ReplaceSpaceZero(strftime_long(build_date(value \div 10000,
                                                   (value % 10000) \div 100, value % 100)))
    ELSE None

-----------------------------------------------------------------------------
(* Index cache: the two-level hierarchy                                     *)

\* dict.setdefault(key, default)
SetDefault(d, key, default) == IF key \in DOMAIN d THEN d ELSE d @@ (key :> default)

NoGroups == [k \in {} |-> 0]

\* top_key, subgroup_key and subgroup_label of a path with these parts.
group_keys(parts) ==
    [top_key        |-> parts[1],
     subgroup_key   |-> IF Len(parts) >= 2 THEN parts[1] \o <<"/">> \o parts[2] ELSE parts[1],
     subgroup_label |-> IF Len(parts) >= 2 THEN parts[2] ELSE parts[1]]

image_item(relative_str, parts, dv, hint, subgroup_label) ==
    [name      |-> parts[Len(parts)],
     path      |-> relative_str,
     dateHint  |-> IF hint # None THEN hint ELSE subgroup_label,
     dateValue |-> dv.value,
     hasDate   |-> dv.has_date]

\* Variant: the running date of a group is overwritten by each dated image.
count_image_last_date_wins(entry, dv) ==
    [entry EXCEPT !.count = @ + 1, !.maxDate = IF dv.has_date THEN dv.value ELSE @]

\* entry["count"] += 1; if has_date: entry["maxDate"] = max(entry["maxDate"], date_value)
count_image(entry, dv) ==
    [entry EXCEPT !.count = @ + 1,
                  !.maxDate = IF dv.has_date /\ dv.value > @ THEN dv.value ELSE @]

\* images_by_group.setdefault(subgroup_key, []).append(image_item)
append_member(images_by_group, subgroup_key, item) ==
    [SetDefault(images_by_group, subgroup_key, <<>>) EXCEPT ![subgroup_key] = Append(@, item)]

\* top_entry["subgroups"].setdefault(subgroup_key, {...}), then its count and date.
count_in_subgroups(subgroups, k, dv) ==
    [SetDefault(subgroups, k.subgroup_key,
                [key |-> k.subgroup_key, label |-> k.subgroup_label, count |-> 0,
                 maxDate |-> 0])
        EXCEPT ![k.subgroup_key] = count_image(@, dv)]

\* top_groups.setdefault(top_key, {...}), then its count and date and its subgroup's.
count_in_top_groups(top_groups, k, dv) ==
    [SetDefault(top_groups, k.top_key,
                [key |-> k.top_key, label |-> k.top_key, count |-> 0, maxDate |-> 0,
                 subgroups |-> NoGroups])
        EXCEPT ![k.top_key] =
            [count_image(@, dv) EXCEPT !.subgroups = count_in_subgroups(@, k, dv)]]

\* The body of the scan loop past "if not parts: continue".
add_image(acc, relative_str, parts, k, dv) ==
    [top_groups      |-> count_in_top_groups(acc.top_groups, k, dv),
     images_by_group |-> append_member(acc.images_by_group, k.subgroup_key,
                             image_item(relative_str, parts, dv,
                                        guess_date_hint(relative_str), k.subgroup_label))]

\* build_hierarchy, one round of the scan loop.
scan_one(acc, relative_str) ==
    IF Len(Parts(relative_str)) = 0 THEN acc
    ELSE add_image(acc, relative_str, Parts(relative_str), group_keys(Parts(relative_str)),
                   extract_date_value(relative_str))

RECURSIVE scan_groups(_, _, _)
\* build_hierarchy, the scan loop over iter_images_recursive(root).
scan_groups(rels, i, acc) ==
    IF i > Len(rels) THEN acc ELSE scan_groups(rels, i + 1, scan_one(acc, rels[i]))

\* Variant: the paths of the member sort key compared as they are spelled.
ItemKeyLess_case_sensitive(a, b) ==
    \/ (IF a.hasDate THEN 1 ELSE 0) < (IF b.hasDate THEN 1 ELSE 0)
    \/ a.hasDate = b.hasDate /\ a.dateValue < b.dateValue
    \/ a.hasDate = b.hasDate /\ a.dateValue = b.dateValue /\ StrLess(a.path, b.path)

\* The member sort key (1 if hasDate else 0, dateValue, path.lower()), compared as
\* a tuple.
ItemKeyLess(a, b) ==
    LET ha == IF a.hasDate THEN 1 ELSE 0
        hb == IF b.hasDate THEN 1 ELSE 0
    IN  \/ ha < hb
        \/ ha = hb /\ a.dateValue < b.dateValue
        \/ ha = hb /\ a.dateValue = b.dateValue /\ StrLess(Lower(a.path), Lower(b.path))

\* image_list.sort(key=..., reverse=True): descending, equal keys in list order.
sort_members(image_list) ==
    StableSort(image_list, [i \in 1..Len(image_list) |->
                               [j \in 1..Len(image_list) |-> ItemKeyLess(image_list[j], image_list[i])]])

\* The group sort key (dateValue, key), compared as a tuple.
GroupKeyLess(a, b) ==
    a.dateValue < b.dateValue \/ (a.dateValue = b.dateValue /\ StrLess(a.key, b.key))

\* sort(key=lambda item: (item["dateValue"], item["key"]), reverse=True) of
\* group payloads; their keys are pairwise distinct.
sort_groups_desc(G) ==
    LET rank == [g \in G |-> Cardinality({h \in G : GroupKeyLess(g, h)}) + 1]
    IN  [k \in 1..Cardinality(G) |-> CHOOSE g \in G : rank[g] = k]

\* a or b or c on strings, None being the empty string.
first_of(a, b, c) == IF a # None THEN a ELSE IF b # None THEN b ELSE c

\* Variant: the subgroup's label is formatted like a top group's.
subgroup_payload_label_only(sub) ==
    [key |-> sub.key, label |-> sub.label,
     formattedLabel |-> first_of(None, format_display_date(sub.label), sub.label),
     count |-> sub.count, dateValue |-> sub.maxDate]

subgroup_payload(sub) ==
    [key |-> sub.key, label |-> sub.label,
     formattedLabel |-> first_of(format_date_value(sub.maxDate),
                                 format_display_date(sub.label), sub.label),
     count |-> sub.count, dateValue |-> sub.maxDate]

top_group_payload(top_entry) ==
    [key |-> top_entry.key, label |-> top_entry.label,
     formattedLabel |-> first_of(format_display_date(top_entry.label), top_entry.label,
                                 top_entry.label),
     count |-> top_entry.count,
     dateValue |-> top_entry.maxDate,
     subgroups |-> sort_groups_desc({subgroup_payload(top_entry.subgroups[k]) :
                                        k \in DOMAIN top_entry.subgroups})]

\* build_hierarchy after the scan loop: sort the member lists, freeze the groups
\* into ordered lists.
freeze_hierarchy(acc) ==
    [top_groups |-> sort_groups_desc({top_group_payload(acc.top_groups[k]) :
                                         k \in DOMAIN acc.top_groups}),
     images_by_group |-> [k \in DOMAIN acc.images_by_group |->
                             sort_members(acc.images_by_group[k])]]

\* build_hierarchy, the rebuild branch over the relative paths walked.
hierarchy_of_scan(rels) ==
    freeze_hierarchy(scan_groups(rels, 1, [top_groups |-> NoGroups,
                                           images_by_group |-> NoGroups]))

scan_hierarchy(files) == hierarchy_of_scan(RelativePaths(files))

\* The test of the cache-hit branch of build_hierarchy ("cached_hierarchy and
\* ...": a hierarchy dict is never empty, so it is true of any stored one).
hierarchy_cache_hit(c, root, now) ==
    /\ c.hierarchy # NoHierarchy
    /\ c.hierarchy_root = root
    /\ now - c.hierarchy_generated < IMAGE_CACHE_TTL_SECONDS

\* build_hierarchy past a failed cache test, with the hierarchy the scan built:
\* the three writes and the return.
hierarchy_rebuilt(c, root, now, hierarchy) ==
    [cache     |-> [c EXCEPT !.hierarchy_root = root, !.hierarchy_generated = now,
                             !.hierarchy = hierarchy],
     ret       |-> hierarchy,
     rescanned |-> TRUE]

\* build_hierarchy(root) run to completion against cache c at time now.
build_hierarchy(c, files, root, now) ==
    IF hierarchy_cache_hit(c, root, now)
    THEN [cache |-> c, ret |-> c.hierarchy, rescanned |-> FALSE]
    ELSE hierarchy_rebuilt(c, root, now, scan_hierarchy(files))

-----------------------------------------------------------------------------
(* Pagination                                                               *)

\* s[a : b] for 0 <= a and 0 <= b (Python indices, from 0).
PySlice(s, a, b) ==
    LET hi == IF b < Len(s) THEN b ELSE Len(s)
    IN  IF a >= hi THEN <<>> ELSE SubSeq(s, a + 1, hi)

RECURSIVE index_of_skip_first(_, _, _)
\* Variant: the search never looks at the first item.
index_of_skip_first(s, x, i) ==
    IF i + 1 >= Len(s) THEN 0 - 1
    ELSE IF s[i + 2] = x THEN i + 1
    ELSE index_of_skip_first(s, x, i + 1)

RECURSIVE index_of(_, _, _)
\* list.index(x) / the enumerate loop of group_images_payload: the Python
\* index of the first item equal to x, searching from Python index i; -1 if none.
index_of(s, x, i) ==
    IF i >= Len(s) THEN 0 - 1
    ELSE IF s[i + 1] = x THEN i
    ELSE index_of(s, x, i + 1)

\* Variant: the page starts at the cursor's item, not after it.
start_index_of_at_cursor(ids, cursor) ==
    IF cursor = None THEN 0
    ELSE LET idx == index_of(ids, cursor, 0)
         IN  IF idx >= 0 THEN idx ELSE 0

\* start_index of both paginated operations: after the cursor's item if the
\* cursor is non-empty and found, else 0.  ids are the items' paths.
start_index_of(ids, cursor) ==
    IF cursor = None THEN 0
    ELSE LET idx == index_of(ids, cursor, 0)
         IN  IF idx >= 0 THEN idx + 1 ELSE 0

\* Variant: a cursor is returned also when the page reaches the end.
next_cursor_of_always(ids, start_index, slice_ids) ==
    IF start_index + Len(slice_ids) <= Len(ids) THEN slice_ids[Len(slice_ids)] ELSE None

\* next_cursor of both paginated operations.
next_cursor_of(ids, start_index, slice_ids) ==
    IF start_index + Len(slice_ids) < Len(ids) THEN slice_ids[Len(slice_ids)] ELSE None

Unknown == <<"U","n","k","n","o","w","n">>

\* rel_path.parent.name
ParentName(p) == IF Len(Parts(p)) >= 2 THEN Parts(p)[Len(Parts(p)) - 1] ELSE <<>>

\* label = hint or rel_path.parent.name or "Unknown"
label_of(p) ==
    IF guess_date_hint(p) # None THEN guess_date_hint(p)
    ELSE IF ParentName(p) # <<>> THEN ParentName(p)
    ELSE Unknown

timeline_item(p) ==
    [name |-> Parts(p)[Len(Parts(p))], path |-> p,
     dateHint |-> IF guess_date_hint(p) # None THEN guess_date_hint(p) ELSE label_of(p)]

\* Variant: the whole page is one section under the first item's label.
build_sections_single(slice_paths, i, sections, current_label, current_items) ==
    IF Len(slice_paths) = 0 THEN <<>>
    ELSE <<[label |-> label_of(slice_paths[1]),
            items |-> [k \in 1..Len(slice_paths) |-> timeline_item(slice_paths[k])]]>>

RECURSIVE build_sections(_, _, _, _, _)
\* timeline_sections, the sectioning loop and the flush after it.  current_label
\* None is the empty string here; no label is empty.
build_sections(slice_paths, i, sections, current_label, current_items) ==
    IF i > Len(slice_paths)
    THEN IF Len(current_items) > 0
         THEN Append(sections, [label |-> current_label, items |-> current_items])
         ELSE sections
    ELSE LET label == label_of(slice_paths[i])
         IN  IF label # current_label
             THEN build_sections(slice_paths, i + 1,
                      IF Len(current_items) > 0
                      THEN Append(sections, [label |-> current_label, items |-> current_items])
                      ELSE sections,
                      label, <<timeline_item(slice_paths[i])>>)
             ELSE build_sections(slice_paths, i + 1, sections, current_label,
                      Append(current_items, timeline_item(slice_paths[i])))

\* timeline_sections, after sorted_image_paths returned paths.
timeline_page(paths, cursor, limit) ==
    LET start_index == start_index_of(paths, cursor)
        slice_paths == PySlice(paths, start_index, start_index + limit)
    IN  IF Len(paths) = 0 \/ Len(slice_paths) = 0
        THEN [sections |-> <<>>, nextCursor |-> None]
        ELSE [sections   |-> build_sections(slice_paths, 1, <<>>, <<>>, <<>>),
              nextCursor |-> next_cursor_of(paths, start_index, slice_paths)]

\* timeline_sections with what sorted_image_paths did (r); seq is the list it
\* returned.
timeline_result(r, cursor, limit) ==
    [cache |-> r.cache, seq |-> r.ret, rescanned |-> r.rescanned,
     ret |-> timeline_page(r.ret, cursor, limit)]

\* timeline_sections(root, cursor, limit, order) run to completion.
timeline_sections(c, files, root, now, cursor, limit, order) ==
    timeline_result(sorted_image_paths(c, files, root, now, order), cursor, limit)

PathsOf(items) == [i \in 1..Len(items) |-> items[i].path]

response_image(item) == [name |-> item.name, path |-> item.path, dateHint |-> item.dateHint]

\* group_images_payload, after build_hierarchy returned data.
group_page(data, group_key, cursor, limit, order) ==
    IF group_key \notin DOMAIN data.images_by_group
    THEN [images |-> <<>>, nextCursor |-> None]
    ELSE LET images      == data.images_by_group[group_key]
             sequence    == IF order = "desc" THEN images ELSE Reverse(images)
             start_index == start_index_of(PathsOf(sequence), cursor)
             slice_items == PySlice(sequence, start_index, start_index + limit)
         IN  IF Len(slice_items) = 0
             THEN [images |-> <<>>, nextCursor |-> None]
             ELSE [images     |-> [i \in 1..Len(slice_items) |-> response_image(slice_items[i])],
                   nextCursor |-> next_cursor_of(PathsOf(sequence), start_index,
                                                 PathsOf(slice_items))]

\* The ordered sequence group_images_payload pages over (item paths); empty for
\* an unknown group.
group_sequence(data, group_key, order) ==
    IF group_key \notin DOMAIN data.images_by_group THEN <<>>
    ELSE PathsOf(IF order = "desc" THEN data.images_by_group[group_key]
                 ELSE Reverse(data.images_by_group[group_key]))

\* group_images_payload with what build_hierarchy did (r).
group_images_result(r, group_key, cursor, limit, order) ==
    [cache |-> r.cache, seq |-> group_sequence(r.ret, group_key, order),
     rescanned |-> r.rescanned,
     ret |-> group_page(r.ret, group_key, cursor, limit, order)]

\* group_images_payload(root, group_key, cursor, limit, order) run to completion.
group_images_payload(c, files, root, now, group_key, cursor, limit, order) ==
    group_images_result(build_hierarchy(c, files, root, now), group_key, cursor, limit, order)

-----------------------------------------------------------------------------
(* Fixture: the files a root may hold                                       *)

\* A file is the list of its path segments below the root.
\* 2022-05-01/a.jpg
P1 == <<<<"2","0","2","2","-","0","5","-","0","1">>, <<"a",".","j","p","g">>>>
\* 2022/k/05/b.jpg
P2 == <<<<"2","0","2","2">>, <<"k">>, <<"0","5">>, <<"b",".","j","p","g">>>>
\* misc/c.jpg
P3 == <<<<"m","i","s","c">>, <<"c",".","j","p","g">>>>
\* a.jpg
P4 == <<<<"a",".","j","p","g">>>>
\* B/d.PNG
P5 == <<<<"B">>, <<"d",".","P","N","G">>>>
\* .h/e.jpg
P6 == <<<<".","h">>, <<"e",".","j","p","g">>>>
\* misc/n.txt
P7 == <<<<"m","i","s","c">>, <<"n",".","t","x","t">>>>
\* 2022/z.gif
P8 == <<<<"2","0","2","2">>, <<"z",".","g","i","f">>>>
\* 2022/k/y/q.jpg
P9 == <<<<"2","0","2","2">>, <<"k">>, <<"y">>, <<"q",".","j","p","g">>>>
\* misc/2021/h.jpg
P10 == <<<<"m","i","s","c">>, <<"2","0","2","1">>, <<"h",".","j","p","g">>>>

AllFiles == {P1, P2, P3, P4, P5, P6, P7, P8, P9, P10}

\* A second tree, with a subgroup of four members: t/u.
\* t/u/2020/x.jpg
Q1 == <<<<"t">>, <<"u">>, <<"2","0","2","0">>, <<"x",".","j","p","g">>>>
\* t/u/y.jpg
Q2 == <<<<"t">>, <<"u">>, <<"y",".","j","p","g">>>>
\* t/u/2020-06-01/z.jpg
Q3 == <<<<"t">>, <<"u">>, <<"2","0","2","0","-","0","6","-","0","1">>, <<"z",".","j","p","g">>>>
\* t/u/w.jpg
Q4 == <<<<"t">>, <<"u">>, <<"w",".","j","p","g">>>>
\* t/v/2020/07/r.jpg
Q5 == <<<<"t">>, <<"v">>, <<"2","0","2","0">>, <<"0","7">>, <<"r",".","j","p","g">>>>
\* s.jpg
Q6 == <<<<"s",".","j","p","g">>>>

PageFiles == {Q1, Q2, Q3, Q4, Q5, Q6}

\* Group keys a client may ask for: t/u, t/v, and one that names no group.
KeyTU == <<"t","/","u">>

KeyTV == <<"t","/","v">>

KeyNone == <<"z","z">>

GroupKeys == {KeyTU, KeyTV, KeyNone}

\* A cursor that names no image: zz/q.jpg.
StaleCursor == <<"z","z","/","q",".","j","p","g">>

\* The cursors a client may send: none, the path of any image of the tree, a stale one.
Cursors == {None, StaleCursor} \cup {JoinParts(f) : f \in PageFiles}

MaxLimit == 3

Roots == {"A", "B"}

Orders == {"asc", "desc"}

\* The clock reading at start-up.
StartTime == 100

EmptyCache ==
    [root |-> NoRoot, generated |-> 0, paths |-> <<>>,
     hierarchy_root |-> NoRoot, hierarchy_generated |-> 0, hierarchy |-> NoHierarchy]

NoCall == [op |-> "none"]

NoChain == [active |-> FALSE]

NoThreads == [t \in {} |-> 0]

Never == 0 - 1

\* History, per cache slot: the root and the files of the last rebuild; for the
\* flat list also the time of every root's last rebuild, and the time of the
\* rebuild before the last one of the root rebuilt last.
\* No thumbnail was asked for: the files' stat and content are not looked at and
\* THUMBNAIL_CACHE_DIR is empty.
NoDisk == [files |-> <<>>, cache_dir |-> <<>>, written |-> <<>>, changes |-> 0, stat_changes |-> 0]

NoGhost ==
    [paths_files |-> {}, paths_root |-> NoRoot, paths_at |-> [r \in Roots |-> Never],
     paths_previous_at |-> Never,
     hierarchy_files |-> {}, hierarchy_root |-> NoRoot]

GhostAfterPaths(root, rescanned) ==
    IF ~rescanned THEN ghost
    ELSE [ghost EXCEPT !.paths_files = fs[root], !.paths_root = root,
                       !.paths_previous_at = ghost.paths_at[root],
                       !.paths_at[root] = clock]

GhostAfterHierarchy(root, rescanned) ==
    IF ~rescanned THEN ghost
    ELSE [ghost EXCEPT !.hierarchy_files = fs[root], !.hierarchy_root = root]

-----------------------------------------------------------------------------
(* SpecSort: sorted_image_paths over every tree of the fixture              *)

InitSort ==
    /\ fs \in {[r \in Roots |-> IF r = "A" THEN S ELSE {}] : S \in SUBSET AllFiles}
    /\ clock = StartTime
    /\ cache = EmptyCache
    /\ last = NoCall
    /\ chain = NoChain
    /\ th = NoThreads
    /\ ghost = NoGhost
    /\ disk = NoDisk

SortedImagePaths(root, order) ==
    \E r \in {sorted_image_paths(cache, fs[root], root, clock, order)} :
        /\ cache' = r.cache
        /\ last' = [op |-> "sorted_image_paths", root |-> root, order |-> order,
                    ret |-> r.ret, rescanned |-> r.rescanned]
        /\ ghost' = GhostAfterPaths(root, r.rescanned)
        /\ UNCHANGED <<fs, clock, chain, th, disk>>

BuildHierarchy(root) ==
    \E r \in {build_hierarchy(cache, fs[root], root, clock)} :
        /\ cache' = r.cache
        /\ last' = [op |-> "build_hierarchy", root |-> root,
                    ret |-> r.ret, rescanned |-> r.rescanned]
        /\ ghost' = GhostAfterHierarchy(root, r.rescanned)
        /\ UNCHANGED <<fs, clock, chain, th, disk>>

NextSort == \E order \in Orders : SortedImagePaths("A", order)

SpecSort == InitSort /\ [][NextSort]_vars

-----------------------------------------------------------------------------
(* Claims about sorted_image_paths (checked under SpecSort)                 *)

IsDated(p) == extract_date_value(p).has_date

NumDated(s) == Cardinality({i \in 1..Len(s) : IsDated(s[i])})

\* The last call was sorted_image_paths(root, "desc").
DescCall == last.op = "sorted_image_paths" /\ last.order = "desc"

\* What sorted_image_paths(root, "asc") returns right after that call.
AscRet == sorted_image_paths(cache, fs[last.root], last.root, clock, "asc").ret

DescRet == last.ret

\* C4: sortedImagePaths(root, "desc") is the dated block of the ascending list
\* reversed, followed by the undated block of the ascending list unchanged; in
\* both directions every undated image comes after every dated one and the
\* undated suffix is the same.
C4_DescReversesDatedBlockOnly ==
    DescCall =>
        LET nd == NumDated(AscRet)
            n  == Len(AscRet)
        IN  /\ \A i \in 1..n : IsDated(AscRet[i]) <=> i <= nd
            /\ Len(DescRet) = n
            /\ \A i \in 1..n : IsDated(DescRet[i]) <=> i <= nd
            /\ \A i \in 1..nd : DescRet[i] = AscRet[nd + 1 - i]
            /\ \A i \in (nd + 1)..n : DescRet[i] = AscRet[i]

C4_Witness ==
    /\ DescCall
    /\ NumDated(AscRet) >= 2
    /\ Len(AscRet) - NumDated(AscRet) >= 2
    /\ DescRet # AscRet

\* The images a scan of the tree must find: image files none of whose directory
\* segments is ignored, as relative paths.
ExpectedImages(files) ==
    {JoinParts(f) : f \in {g \in files : /\ IsImageName(g[Len(g)])
                                           /\ \A i \in 1..(Len(g) - 1) : ~is_ignored_name(g[i])}}

StrLeq(a, b) == a = b \/ StrLess(a, b)

\* (hasDate, dateValue, path) order with dated first; paths compared lower-cased
\* when folded, else as strings.
CanonicalLeq(p, q, folded) ==
    LET dp == extract_date_value(p)
        dq == extract_date_value(q)
    IN  \/ dp.has_date /\ ~dq.has_date
        \/ dp.has_date /\ dq.has_date /\ dp.value < dq.value
        \/ /\ dp.has_date = dq.has_date /\ dp.value = dq.value
           /\ IF folded THEN StrLeq(Lower(p), Lower(q)) ELSE StrLeq(p, q)

IsPermutationOf(s, S) ==
    /\ Len(s) = Cardinality(S)
    /\ {s[i] : i \in 1..Len(s)} = S

AscCall == last.op = "sorted_image_paths" /\ last.order = "asc"

\* C5 as stated: the ascending list is a permutation of the non-ignored images,
\* dated first by (dateValue, path), then undated by path, paths compared as
\* strings.
C5_OrderedByPathLiteral ==
    AscCall =>
        /\ IsPermutationOf(last.ret, ExpectedImages(ghost.paths_files))
        /\ \A i, j \in 1..Len(last.ret) :
               i < j => CanonicalLeq(last.ret[i], last.ret[j], FALSE)

\* C5, amended: as above, with paths compared lower-cased.
C5_OrderedByCaseFoldedPath ==
    AscCall =>
        /\ IsPermutationOf(last.ret, ExpectedImages(ghost.paths_files))
        /\ \A i, j \in 1..Len(last.ret) :
               i < j => CanonicalLeq(last.ret[i], last.ret[j], TRUE)

\* An ascending list over a tree with an ignored directory and a non-image file,
\* two dated images of equal date value that the walk meets in the other order,
\* an older dated image under a later name, and undated images whose order
\* depends on case.
C5_Witness ==
    /\ AscCall
    /\ {P6, P7, P8, P9, P10} \subseteq fs[last.root]
    /\ \E i, j \in 1..Len(last.ret) :
           /\ i < j /\ ~IsDated(last.ret[i]) /\ ~IsDated(last.ret[j])
           /\ StrLess(last.ret[j], last.ret[i])

-----------------------------------------------------------------------------
(* SpecHier: build_hierarchy over every tree of the fixture                 *)

NextHier == BuildHierarchy("A")

SpecHier == InitSort /\ [][NextHier]_vars

TopKeyOf(p) == Parts(p)[1]

\* The first two segments of a path, or its only segment.
SubKeyOf(p) ==
    IF Len(Parts(p)) >= 2 THEN Parts(p)[1] \o <<"/">> \o Parts(p)[2] ELSE Parts(p)[1]

MaxOrZero(S) == IF S = {} THEN 0 ELSE CHOOSE x \in S : \A y \in S : y <= x

DatedValues(members) ==
    {extract_date_value(p).value : p \in {q \in members : IsDated(q)}}

SeqRange(s) == {s[i] : i \in 1..Len(s)}

\* The subgroup payloads of a hierarchy, over all top groups.
AllSubgroups(h) ==
    UNION {SeqRange(h.top_groups[i].subgroups) : i \in 1..Len(h.top_groups)}

\* C10: in the hierarchy built by a scan, every top group's count is the number
\* of scanned images whose first segment is its key, every subgroup's count is
\* the number of scanned images whose first two segments (its only segment, for
\* an image directly under the root) are its key and is the length of its member
\* list, and every group's dateValue is the maximum date value of its dated
\* members, 0 exactly when it has none.  Every scanned image belongs to a group.
C10_GroupCountsAndMaxDate ==
    cache.hierarchy # NoHierarchy =>
        LET h    == cache.hierarchy
            imgs == ExpectedImages(ghost.hierarchy_files)
            topMembers(k) == {p \in imgs : TopKeyOf(p) = k}
            subMembers(k) == {p \in imgs : SubKeyOf(p) = k}
        IN  /\ {h.top_groups[i].key : i \in 1..Len(h.top_groups)} = {TopKeyOf(p) : p \in imgs}
            /\ {g.key : g \in AllSubgroups(h)} = {SubKeyOf(p) : p \in imgs}
            /\ DOMAIN h.images_by_group = {SubKeyOf(p) : p \in imgs}
            /\ \A i \in 1..Len(h.top_groups) :
                   LET g == h.top_groups[i]
                   IN  /\ g.count = Cardinality(topMembers(g.key))
                       /\ g.dateValue = MaxOrZero(DatedValues(topMembers(g.key)))
                       /\ g.dateValue = 0 <=> DatedValues(topMembers(g.key)) = {}
                       /\ \A j \in 1..Len(g.subgroups) :
                              LET sg == g.subgroups[j]
                              IN  /\ TopKeyOf(sg.key) = g.key
                                  /\ sg.count = Cardinality(subMembers(sg.key))
                                  /\ sg.count = Len(h.images_by_group[sg.key])
                                  /\ sg.dateValue = MaxOrZero(DatedValues(subMembers(sg.key)))
                                  /\ sg.dateValue = 0 <=> DatedValues(subMembers(sg.key)) = {}

\* A built hierarchy with a top group of three images and two date values, a
\* subgroup of two images with different date values, a top group with dated
\* and undated members, and an image directly under the root.
C10_Witness ==
    /\ cache.hierarchy # NoHierarchy
    /\ last.op = "build_hierarchy" /\ last.rescanned
    /\ {P2, P3, P4, P6, P7, P8, P9, P10} \subseteq fs[last.root]
    /\ \E i \in 1..Len(cache.hierarchy.top_groups) :
           LET g == cache.hierarchy.top_groups[i]
           IN  /\ g.count = 3 /\ g.dateValue = 20220500
               /\ \E j \in 1..Len(g.subgroups) :
                      g.subgroups[j].count = 2 /\ g.subgroups[j].dateValue = 20220500

-----------------------------------------------------------------------------
(* SpecPage: single calls of the paginated operations                       *)

InitPage ==
    /\ fs \in {[r \in Roots |-> IF r = "A" THEN S ELSE {}] : S \in SUBSET PageFiles}
    /\ clock = StartTime
    /\ cache = EmptyCache
    /\ last = NoCall
    /\ chain = NoChain
    /\ th = NoThreads
    /\ ghost = NoGhost
    /\ disk = NoDisk

RECURSIVE SectionPaths(_)
\* The item paths of a sectioned page, in order.
SectionPaths(sections) ==
    IF Len(sections) = 0 THEN <<>>
    ELSE PathsOf(sections[1].items) \o SectionPaths(Tail(sections))

\* One call of timeline_sections; the record keeps the sequence it paged over
\* and the item paths of the page.
Timeline(root, cursor, limit, order) ==
    \E r \in {timeline_sections(cache, fs[root], root, clock, cursor, limit, order)} :
        /\ cache' = r.cache
        /\ last' = [op |-> "timeline_sections", root |-> root, cursor |-> cursor,
                    limit |-> limit, order |-> order, seq |-> r.seq,
                    page |-> SectionPaths(r.ret.sections),
                    nextCursor |-> r.ret.nextCursor, ret |-> r.ret,
                    rescanned |-> r.rescanned]
        /\ ghost' = GhostAfterPaths(root, r.rescanned)
        /\ UNCHANGED <<fs, clock, chain, th, disk>>

\* One call of group_images_payload.
GroupImages(root, group_key, cursor, limit, order) ==
    \E r \in {group_images_payload(cache, fs[root], root, clock, group_key, cursor, limit, order)} :
        /\ cache' = r.cache
        /\ last' = [op |-> "group_images_payload", root |-> root, key |-> group_key,
                    cursor |-> cursor, limit |-> limit, order |-> order, seq |-> r.seq,
                    page |-> PathsOf(r.ret.images),
                    nextCursor |-> r.ret.nextCursor, ret |-> r.ret,
                    rescanned |-> r.rescanned]
        /\ ghost' = GhostAfterHierarchy(root, r.rescanned)
        /\ UNCHANGED <<fs, clock, chain, th, disk>>

\* The observer drops its record of the last call; the program state stays.
Forget ==
    /\ last # NoCall
    /\ last' = NoCall
    /\ UNCHANGED <<fs, clock, cache, chain, th, ghost, disk>>

NextPage ==
    \/ /\ last = NoCall
       /\ \E cursor \in Cursors, limit \in 0..MaxLimit, order \in Orders :
              Timeline("A", cursor, limit, order)
    \/ /\ last = NoCall
       /\ \E key \in GroupKeys, cursor \in Cursors, limit \in 0..MaxLimit, order \in Orders :
              GroupImages("A", key, cursor, limit, order)
    \/ Forget

SpecPage == InitPage /\ [][NextPage]_vars

PageCall == last.op \in {"timeline_sections", "group_images_payload"}

\* Where the claim says the page must start (Python index): after the cursor's
\* item if the cursor is supplied and occurs in the sequence, else 0.
ClaimedStart(seq, cursor) ==
    IF cursor # None /\ \E i \in 1..Len(seq) : seq[i] = cursor
    THEN CHOOSE i \in 1..Len(seq) : seq[i] = cursor
    ELSE 0

\* C2: the page starts right after the cursor's item when the cursor occurs in
\* the current sequence, and at the first item when the cursor is absent, empty
\* or does not occur; the page is empty only if nothing lies there (or limit 0).
C2_PageStartsAfterCursor ==
    PageCall =>
        LET st == ClaimedStart(last.seq, last.cursor)
        IN  /\ \A j \in 1..Len(last.page) :
                   st + j <= Len(last.seq) /\ last.page[j] = last.seq[st + j]
            /\ Len(last.page) = 0 <=> (st >= Len(last.seq) \/ last.limit = 0)

\* A cursor that names no item of a non-empty sequence gets the first page.
C2_Witness ==
    /\ PageCall
    /\ last.cursor = StaleCursor
    /\ Len(last.seq) >= 3
    /\ Len(last.page) = 2
    /\ last.page[1] = last.seq[1]

\* C3: the page is a contiguous run of at most limit items of the sequence;
\* nextCursor is the path of the page's last item exactly when the page is not
\* empty and items remain after it, and nothing otherwise.
C3_PageAndNextCursor ==
    PageCall =>
        /\ Len(last.page) <= last.limit
        /\ \E a \in 0..Len(last.seq) :
               /\ a + Len(last.page) <= Len(last.seq)
               /\ \A j \in 1..Len(last.page) : last.page[j] = last.seq[a + j]
               /\ IF Len(last.page) > 0 /\ a + Len(last.page) < Len(last.seq)
                  THEN last.nextCursor = last.page[Len(last.page)]
                  ELSE last.nextCursor = None
        /\ (Len(last.page) = 0 => last.nextCursor = None)

\* A middle page: it starts after a cursor, is full, and items remain after it.
C3_Witness ==
    /\ PageCall
    /\ last.cursor # None
    /\ Len(last.page) = 2 /\ last.limit = 2
    /\ last.page[1] # last.seq[1]
    /\ last.nextCursor = last.page[2]
    /\ last.page[2] # last.seq[Len(last.seq)]

-----------------------------------------------------------------------------
(* SpecChain: a client that follows nextCursor from the first page on       *)

MaxCalls == 8

MaxExpiries == 1

\* The limits a chain may use: every small one, and the size of the whole tree.
ChainLimits == (1..MaxLimit) \cup {Cardinality(PageFiles)}

\* The chain after the call r made with its cursor: the page appended, the
\* cursor replaced by nextCursor, and whether the sequence is still the one the
\* first call paged over.
ChainAfter(ch, r, page) ==
    [ch EXCEPT !.got = @ \o page,
               !.cursor = r.ret.nextCursor,
               !.calls = @ + 1,
               !.done = (r.ret.nextCursor = None),
               !.const = @ /\ r.seq = ch.base]

\* The call of a chain step: the operation of the chain, with the given cursor.
ChainCall(ch, cursor) ==
    IF ch.op = "timeline_sections"
    THEN timeline_sections(cache, fs[ch.root], ch.root, clock, cursor, ch.limit, ch.order)
    ELSE group_images_payload(cache, fs[ch.root], ch.root, clock, ch.key, cursor, ch.limit,
                              ch.order)

ChainPage(ch, r) ==
    IF ch.op = "timeline_sections" THEN SectionPaths(r.ret.sections) ELSE PathsOf(r.ret.images)

ChainGhost(ch, r) ==
    IF ch.op = "timeline_sections" THEN GhostAfterPaths(ch.root, r.rescanned)
    ELSE GhostAfterHierarchy(ch.root, r.rescanned)

\* The first call of a chain: no cursor.
ChainStart(op, key, order, limit) ==
    /\ ~chain.active
    /\ LET ch0 == [active |-> TRUE, op |-> op, root |-> "A", key |-> key, order |-> order,
                   limit |-> limit, cursor |-> None, got |-> <<>>, calls |-> 0,
                   done |-> FALSE, base |-> <<>>, const |-> TRUE]
       IN  \E r \in {ChainCall(ch0, None)} :
               /\ cache' = r.cache
               /\ chain' = ChainAfter([ch0 EXCEPT !.base = r.seq], r, ChainPage(ch0, r))
               /\ ghost' = ChainGhost(ch0, r)
    /\ UNCHANGED <<fs, clock, last, th, disk>>

\* The next call of the chain, with the previous call's nextCursor.
ChainNext ==
    /\ chain.active /\ ~chain.done /\ chain.calls < MaxCalls
    /\ \E r \in {ChainCall(chain, chain.cursor)} :
           /\ cache' = r.cache
           /\ chain' = ChainAfter(chain, r, ChainPage(chain, r))
           /\ ghost' = ChainGhost(chain, r)
    /\ UNCHANGED <<fs, clock, last, th, disk>>

\* Time passes: a whole TTL, so that the next call rebuilds its snapshot.
Expire ==
    /\ clock < StartTime + MaxExpiries * IMAGE_CACHE_TTL_SECONDS
    /\ clock' = clock + IMAGE_CACHE_TTL_SECONDS
    /\ UNCHANGED <<fs, cache, last, chain, th, ghost, disk>>

NextChain ==
    \/ \E order \in Orders, limit \in ChainLimits :
           ChainStart("timeline_sections", None, order, limit)
    \/ \E key \in GroupKeys, order \in Orders, limit \in ChainLimits :
           ChainStart("group_images_payload", key, order, limit)
    \/ ChainNext
    \/ Expire

SpecChain == InitPage /\ [][NextChain]_vars

MinOf(a, b) == IF a < b THEN a ELSE b

\* C1: while the sequence stays the one of the first call, the pages received
\* so far are the sequence's first calls * limit items in order, the chain ends
\* (nextCursor = nothing) exactly when all items have been received, so after
\* at most ceil(length / limit) calls (one call for an empty sequence), and the
\* concatenation is then the full sequence: the result of a single call with
\* limit = length.
C1_ChainedPagesAreTheSequence ==
    (chain.active /\ chain.const) =>
        /\ Len(chain.got) = MinOf(chain.calls * chain.limit, Len(chain.base))
        /\ \A i \in 1..Len(chain.got) : chain.got[i] = chain.base[i]
        /\ chain.done <=> Len(chain.got) = Len(chain.base)
        /\ (chain.calls - 1) * chain.limit < Len(chain.base) \/ chain.calls = 1
        /\ chain.calls < MaxCalls

\* A finished chain of several pages, the last one short, over a sequence that
\* was rebuilt from disk in between.
C1_Witness ==
    /\ chain.active /\ chain.const /\ chain.done
    /\ chain.limit = 2 /\ chain.calls = 3
    /\ Len(chain.base) = 5
    /\ chain.got = chain.base
    /\ clock > StartTime

-----------------------------------------------------------------------------
(* SpecCache: sequential calls for two roots while time passes and the      *)
(* trees change                                                             *)

\* Root A holds P1 throughout while P3 comes and goes; root B holds one file
\* throughout.
CacheFilesA == {P1, P3}

ChangingFiles == {P3}

CacheFilesB == {P4}

\* Steps of the clock: just under the TTL, and the TTL.
TickSteps == {IMAGE_CACHE_TTL_SECONDS - 1, IMAGE_CACHE_TTL_SECONDS}

MaxElapsed == 59

InitCache ==
    /\ fs = [r \in Roots |-> IF r = "A" THEN CacheFilesA ELSE CacheFilesB]
    /\ clock = StartTime
    /\ cache = EmptyCache
    /\ last = NoCall
    /\ chain = NoChain
    /\ th = NoThreads
    /\ ghost = NoGhost
    /\ disk = NoDisk

Tick(d) ==
    /\ clock + d <= StartTime + MaxElapsed
    /\ clock' = clock + d
    /\ UNCHANGED <<fs, cache, last, chain, th, ghost, disk>>

\* A file appears under root A, or disappears.
FsChange(f) ==
    /\ fs' = [fs EXCEPT !["A"] = IF f \in @ THEN @ \ {f} ELSE @ \cup {f}]
    /\ UNCHANGED <<clock, cache, last, chain, th, ghost, disk>>

NextCache ==
    \/ \E root \in Roots, order \in Orders : SortedImagePaths(root, order)
    \/ \E root \in Roots : BuildHierarchy(root)
    \/ \E d \in TickSteps : Tick(d)
    \/ \E f \in ChangingFiles : FsChange(f)

SpecCache == InitCache /\ [][NextCache]_vars

-----------------------------------------------------------------------------
(* Claims about the two cache slots (checked under SpecCache)               *)

\* A step that is a call of sorted_image_paths / build_hierarchy: the calls are
\* the steps that leave the clock and the trees alone.
PathsCallStep == last'.op = "sorted_image_paths" /\ clock' = clock /\ fs' = fs

HierarchyCallStep == last'.op = "build_hierarchy" /\ clock' = clock /\ fs' = fs

PathsSlot(c) == <<c.root, c.generated, c.paths>>

HierarchySlot(c) == <<c.hierarchy_root, c.hierarchy_generated, c.hierarchy>>

\* C6: a call reuses the slot without rescanning iff the slot's root is the
\* requested root and the slot is younger than 30 s; the reused payload is the
\* scan taken at the slot's timestamp, whatever the tree holds now; every other
\* call rescans the tree as it is now and replaces root, timestamp and payload
\* together; so what a call returns is never older than 30 s.
C6_ReuseIffSameRootAndFresh ==
    [][ /\ PathsCallStep =>
            LET root  == last'.root
                fresh == cache.root = root /\ clock - cache.generated < 30
            IN  /\ last'.rescanned <=> ~fresh
                /\ fresh => /\ cache' = cache
                            /\ IsPermutationOf(last'.ret, ExpectedImages(ghost.paths_files))
                /\ ~fresh => /\ PathsSlot(cache')[1] = root
                             /\ PathsSlot(cache')[2] = clock
                             /\ IsPermutationOf(cache'.paths, ExpectedImages(fs[root]))
                             /\ IsPermutationOf(last'.ret, ExpectedImages(fs[root]))
                             /\ HierarchySlot(cache') = HierarchySlot(cache)
                /\ clock - cache'.generated < 30
        /\ HierarchyCallStep =>
            LET root  == last'.root
                fresh == /\ cache.hierarchy_root = root
                         /\ clock - cache.hierarchy_generated < 30
            IN  /\ last'.rescanned <=> ~fresh
                /\ fresh => /\ cache' = cache
                            /\ last'.ret = scan_hierarchy(ghost.hierarchy_files)
                /\ ~fresh => /\ HierarchySlot(cache') = <<root, clock, last'.ret>>
                             /\ last'.ret = scan_hierarchy(fs[root])
                             /\ PathsSlot(cache') = PathsSlot(cache)
                /\ clock - cache'.hierarchy_generated < 30
      ]_vars

\* A call at age 29 s has returned the stored list although the tree has
\* changed since.
C6_Witness ==
    /\ last.op = "sorted_image_paths" /\ ~last.rescanned
    /\ cache.root = last.root
    /\ clock - cache.generated = 29
    /\ fs[last.root] # ghost.paths_files
    /\ ~IsPermutationOf(last.ret, ExpectedImages(fs[last.root]))

\* C7: the flat-list slot holds the snapshot of the root rebuilt last and of no
\* other; a call for a root other than the one rebuilt last rescans, however
\* young that root's own last snapshot is.
C7_SingleSlotEvictsOtherRoot ==
    [][ PathsCallStep =>
            /\ ghost.paths_root # last'.root => last'.rescanned
            /\ cache'.root = ghost'.paths_root
            /\ cache'.generated = ghost'.paths_at[cache'.root]
            /\ IsPermutationOf(cache'.paths, ExpectedImages(ghost'.paths_files))
      ]_vars

\* Root B has just been rescanned although its previous snapshot, evicted by a
\* rebuild for root A, is less than 30 s old.
C7_Witness ==
    /\ last.op = "sorted_image_paths" /\ last.root = "B" /\ last.rescanned
    /\ ghost.paths_root = "B" /\ ghost.paths_at["B"] = clock
    /\ ghost.paths_previous_at # Never
    /\ clock - ghost.paths_previous_at < 30
    /\ ghost.paths_at["A"] >= ghost.paths_previous_at

-----------------------------------------------------------------------------
(* SpecThreads: request threads inside sorted_image_paths and               *)
(* build_hierarchy, one access of _IMAGE_CACHE per step                     *)

Threads == {"t1", "t2"}

Idle == [pc |-> "idle"]

\* The locals of a call that has just been entered.
Entered(op, root, order) ==
    [pc |-> "read_root", op |-> op, root |-> root, order |-> order,
     cache_root |-> NoRoot, now |-> 0, todo |-> <<>>, seen |-> <<>>,
     payload |-> <<>>, rescanned |-> FALSE]

IsPaths(l) == l.op = "sorted_image_paths"

\* Variant: the scan loop stops one image short.
scan_finished_one_early(l) == Len(l.todo) <= 1

\* The for loop over iter_images_recursive(root) is exhausted.
scan_finished(l) == l.todo = <<>>

\* warm_cache(root) at time w, before the server starts its threads.
warm_cache(files, root, w) ==
    build_hierarchy(sorted_image_paths(EmptyCache, files, root, w, "desc").cache,
                    files, root, w).cache

\* The server was warmed for root A a TTL ago, or a second less.
WarmTimes == {StartTime - IMAGE_CACHE_TTL_SECONDS, StartTime - IMAGE_CACHE_TTL_SECONDS + 1}

InitThreads ==
    /\ fs = [r \in Roots |-> IF r = "A" THEN CacheFilesA ELSE CacheFilesB]
    /\ clock = StartTime
    /\ cache \in {warm_cache(fs["A"], "A", w) : w \in WarmTimes}
    /\ last = NoCall
    /\ chain = NoChain
    /\ th = [t \in Threads |-> Idle]
    /\ ghost = NoGhost
    /\ disk = NoDisk

CallSortedImagePaths(t, root, order) ==
    /\ th[t] = Idle
    /\ th' = [th EXCEPT ![t] = Entered("sorted_image_paths", root, order)]
    /\ UNCHANGED <<fs, clock, cache, last, chain, ghost, disk>>

CallBuildHierarchy(t, root) ==
    /\ th[t] = Idle
    /\ th' = [th EXCEPT ![t] = Entered("build_hierarchy", root, "none")]
    /\ UNCHANGED <<fs, clock, cache, last, chain, ghost, disk>>

\* cache_root = _IMAGE_CACHE[...]; now = time.time()
ReadRoot(t) ==
    /\ th[t].pc = "read_root"
    /\ th' = [th EXCEPT ![t].cache_root = IF IsPaths(th[t]) THEN cache.root
                                          ELSE cache.hierarchy_root,
                        ![t].now = clock,
                        ![t].pc = IF IsPaths(th[t]) THEN "check" ELSE "read_cached"]
    /\ UNCHANGED <<fs, clock, cache, last, chain, ghost, disk>>

\* cached_hierarchy = _IMAGE_CACHE.get("hierarchy")
ReadCached(t) ==
    /\ th[t].pc = "read_cached"
    /\ th' = [th EXCEPT ![t].payload = cache.hierarchy, ![t].pc = "check"]
    /\ UNCHANGED <<fs, clock, cache, last, chain, ghost, disk>>

\* The if: the root read earlier against the requested one, the slot's timestamp
\* as it is now against the time read earlier.
CheckCache(t) ==
    /\ th[t].pc = "check"
    /\ LET l   == th[t]
           hit == IF IsPaths(l)
                  THEN paths_cache_hit([root |-> l.cache_root, generated |-> cache.generated],
                                       l.root, l.now)
                  ELSE hierarchy_cache_hit([hierarchy |-> l.payload,
                                            hierarchy_root |-> l.cache_root,
                                            hierarchy_generated |-> cache.hierarchy_generated],
                                           l.root, l.now)
       IN  th' = [th EXCEPT ![t] =
                    IF hit
                    THEN [l EXCEPT !.cache_root = NoRoot, !.now = 0,
                                   !.pc = IF IsPaths(l) THEN "read_paths" ELSE "return"]
                    ELSE [l EXCEPT !.cache_root = NoRoot, !.payload = <<>>,
                                   !.todo = RelativePaths(fs[l.root]),
                                   !.rescanned = TRUE, !.pc = "scan"]]
    /\ UNCHANGED <<fs, clock, cache, last, chain, ghost, disk>>

\* cache_paths = list(_IMAGE_CACHE["paths"])
ReadPaths(t) ==
    /\ th[t].pc = "read_paths"
    /\ th' = [th EXCEPT ![t].payload = cache.paths, ![t].pc = "return"]
    /\ UNCHANGED <<fs, clock, cache, last, chain, ghost, disk>>

\* One round of the scan loop; when it is exhausted, the sorts that finish the
\* payload in the thread's own variables.
ScanStep(t) ==
    /\ th[t].pc = "scan"
    /\ LET l == th[t]
       IN  th' = [th EXCEPT ![t] =
                    IF scan_finished(l)
                    THEN [l EXCEPT !.payload = IF IsPaths(l) THEN sort_scanned(l.seen)
                                               ELSE hierarchy_of_scan(l.seen),
                                   !.seen = <<>>, !.todo = <<>>, !.pc = "write_root"]
                    ELSE [l EXCEPT !.seen = Append(l.seen, Head(l.todo)),
                                   !.todo = Tail(l.todo)]]
    /\ UNCHANGED <<fs, clock, cache, last, chain, ghost, disk>>

WriteRoot(t) ==
    /\ th[t].pc = "write_root"
    /\ cache' = IF IsPaths(th[t]) THEN [cache EXCEPT !.root = th[t].root]
                ELSE [cache EXCEPT !.hierarchy_root = th[t].root]
    /\ th' = [th EXCEPT ![t].pc = "write_generated"]
    /\ UNCHANGED <<fs, clock, last, chain, ghost, disk>>

WriteGenerated(t) ==
    /\ th[t].pc = "write_generated"
    /\ cache' = IF IsPaths(th[t]) THEN [cache EXCEPT !.generated = th[t].now]
                ELSE [cache EXCEPT !.hierarchy_generated = th[t].now]
    /\ th' = [th EXCEPT ![t].now = 0, ![t].pc = "write_payload"]
    /\ UNCHANGED <<fs, clock, last, chain, ghost, disk>>

WritePayload(t) ==
    /\ th[t].pc = "write_payload"
    /\ cache' = IF IsPaths(th[t]) THEN [cache EXCEPT !.paths = th[t].payload]
                ELSE [cache EXCEPT !.hierarchy = th[t].payload]
    /\ th' = [th EXCEPT ![t].pc = "return"]
    /\ UNCHANGED <<fs, clock, last, chain, ghost, disk>>

Return(t) ==
    /\ th[t].pc = "return"
    /\ last' = IF IsPaths(th[t])
               THEN [op |-> th[t].op, root |-> th[t].root, order |-> th[t].order,
                     ret |-> order_view(th[t].payload, th[t].order),
                     rescanned |-> th[t].rescanned]
               ELSE [op |-> th[t].op, root |-> th[t].root,
                     ret |-> th[t].payload, rescanned |-> th[t].rescanned]
    /\ th' = [th EXCEPT ![t] = Idle]
    /\ UNCHANGED <<fs, clock, cache, chain, ghost, disk>>

\* Each thread calls either function for either root; the flat list is asked
\* for in the default order, which only shapes the caller's own copy.
NextThreads ==
    \E t \in Threads :
        \/ \E root \in Roots : CallSortedImagePaths(t, root, "desc")
        \/ \E root \in Roots : CallBuildHierarchy(t, root)
        \/ ReadRoot(t)
        \/ ReadCached(t)
        \/ CheckCache(t)
        \/ ReadPaths(t)
        \/ ScanStep(t)
        \/ WriteRoot(t)
        \/ WriteGenerated(t)
        \/ WritePayload(t)
        \/ Return(t)

SpecThreads == InitThreads /\ [][NextThreads]_vars

-----------------------------------------------------------------------------
(* Claims about concurrent calls (checked under SpecThreads)                *)

\* A flat list that is the complete scan of one root.
CompletePaths(paths) ==
    \E r \in Roots : IsPermutationOf(paths, ExpectedImages(fs[r]))

HierarchyPaths(h) ==
    UNION {{h.images_by_group[k][i].path : i \in 1..Len(h.images_by_group[k])} :
              k \in DOMAIN h.images_by_group}

HierarchyCount(h) ==
    Cardinality({<<k, i>> \in (DOMAIN h.images_by_group) \X (1..Cardinality(AllFiles)) :
                    i <= Len(h.images_by_group[k])})

\* A hierarchy that is the complete scan of one root: its member lists hold
\* that root's images, each once, and its top groups are their first segments.
CompleteHierarchy(h) ==
    /\ DOMAIN h = {"top_groups", "images_by_group"}
    /\ \E r \in Roots :
           /\ HierarchyPaths(h) = ExpectedImages(fs[r])
           /\ HierarchyCount(h) = Cardinality(ExpectedImages(fs[r]))
           /\ {h.top_groups[i].key : i \in 1..Len(h.top_groups)}
                  = {Parts(p)[1] : p \in ExpectedImages(fs[r])}

Rebuilding(t) == th[t].pc \in {"scan", "write_root", "write_generated", "write_payload"}

Publishing(t) == th[t].pc \in {"write_generated", "write_payload"}

\* C8: whatever threads are doing, a payload a call returns or is about to
\* return, and the payload a reader finds in either slot, is the complete scan
\* of one root: never a list or hierarchy still being built, never parts of two.
C8_ReadersSeeCompleteSnapshots ==
    /\ last.op = "sorted_image_paths" => CompletePaths(last.ret)
    /\ last.op = "build_hierarchy" => CompleteHierarchy(last.ret)
    /\ CompletePaths(cache.paths)
    /\ CompleteHierarchy(cache.hierarchy)
    /\ \A t \in Threads :
           th[t].pc = "return" =>
               IF IsPaths(th[t]) THEN CompletePaths(th[t].payload)
               ELSE CompleteHierarchy(th[t].payload)

\* A call for root A has returned the stored list of root A while another
\* thread, rebuilding for root B, has written the slot's root and timestamp
\* but not yet its list.
C8_Witness ==
    /\ last.op = "sorted_image_paths" /\ last.root = "A" /\ ~last.rescanned
    /\ IsPermutationOf(last.ret, ExpectedImages(fs["A"]))
    /\ \E t \in Threads :
           /\ th[t].pc = "write_payload" /\ IsPaths(th[t]) /\ th[t].root = "B"
           /\ cache.root = "B"
           /\ th[t].payload # cache.paths

\* C9 as stated: of the threads calling one function for one root, at most one
\* is rebuilding (scanning or publishing) at any time.
C9_AtMostOneRebuildInProgress ==
    \A t1, t2 \in Threads :
        (t1 # t2 /\ Rebuilding(t1) /\ Rebuilding(t2)) =>
            ~(th[t1].op = th[t2].op /\ th[t1].root = th[t2].root)

-----------------------------------------------------------------------------
(* hierarchy_payload: the hierarchy as served for an order                  *)

\* sorted(groups, key=lambda item: (item["dateValue"], item["key"]),
\* reverse=reverse) of a list of group payloads with pairwise distinct keys.
sorted_groups(groups, reverse) ==
    LET G    == {groups[i] : i \in 1..Len(groups)}
        rank == [g \in G |->
                    IF reverse THEN Cardinality({h \in G : GroupKeyLess(g, h)}) + 1
                    ELSE Cardinality({h \in G : GroupKeyLess(h, g)}) + 1]
    IN  [k \in 1..Cardinality(G) |-> CHOOSE g \in G : rank[g] = k]

\* One entry of ordered_groups.
ordered_group(group, reverse) ==
    [key |-> group.key, label |-> group.label, formattedLabel |-> group.formattedLabel,
     count |-> group.count, dateValue |-> group.dateValue,
     subgroups |-> sorted_groups(group.subgroups, reverse)]

\* Variant: the member list is served as stored for either order.
member_sequence_as_stored(image_list, reverse) == image_list

\* sequence = image_list if reverse else list(reversed(image_list))
member_sequence(image_list, reverse) ==
    IF reverse THEN image_list ELSE Reverse(image_list)

payload_image(item) ==
    [name |-> item.name, path |-> item.path, dateHint |-> item.dateHint,
     dateValue |-> item.dateValue]

\* The groups of the payload, from the top groups already sorted.
ordered_groups(sorted_top, reverse) ==
    [i \in 1..Len(sorted_top) |-> ordered_group(sorted_top[i], reverse)]

\* hierarchy_payload with the hierarchy build_hierarchy returned (data).
payload_of(data, order) ==
    [groups        |-> ordered_groups(sorted_groups(data.top_groups, order = "desc"),
                                      order = "desc"),
     imagesByGroup |-> [k \in DOMAIN data.images_by_group |->
                           LET sequence == member_sequence(data.images_by_group[k],
                                                           order = "desc")
                           IN  [i \in 1..Len(sequence) |-> payload_image(sequence[i])]],
     order         |-> order]

\* hierarchy_payload with what build_hierarchy did (r).
hierarchy_result(r, order) ==
    [cache |-> r.cache, rescanned |-> r.rescanned, ret |-> payload_of(r.ret, order)]

\* hierarchy_payload(root, order) run to completion against cache c at time now.
hierarchy_payload(c, files, root, now, order) ==
    hierarchy_result(build_hierarchy(c, files, root, now), order)

-----------------------------------------------------------------------------
(* SpecPayload: hierarchy_payload over every tree of the fixture            *)

HierarchyPayload(root, order) ==
    \E r \in {hierarchy_payload(cache, fs[root], root, clock, order)} :
        /\ cache' = r.cache
        /\ last' = [op |-> "hierarchy_payload", root |-> root, order |-> order,
                    ret |-> r.ret, rescanned |-> r.rescanned]
        /\ ghost' = GhostAfterHierarchy(root, r.rescanned)
        /\ UNCHANGED <<fs, clock, chain, th, disk>>

NextPayload == \E order \in Orders : HierarchyPayload("A", order)

SpecPayload == InitSort /\ [][NextPayload]_vars

PayloadCall == last.op = "hierarchy_payload"

\* (dateValue, key) of a before that of b, keys compared as strings.
GroupBefore(a, b) ==
    a.dateValue < b.dateValue \/ (a.dateValue = b.dateValue /\ StrLess(a.key, b.key))

\* A list of groups runs strictly upwards (asc) or downwards (desc) in
\* (dateValue, key).
GroupsInOrder(groups, order) ==
    \A i, j \in 1..Len(groups) :
        i < j => IF order = "asc" THEN GroupBefore(groups[i], groups[j])
                 ELSE GroupBefore(groups[j], groups[i])

\* C11: the payload lists the top groups of the stored hierarchy, and in each
\* its subgroups, by (dateValue, key) upwards for asc and downwards for desc; a
\* subgroup's member list for desc is the stored list as it is, and for asc
\* that list reversed.
C11_GroupsOrderedMembersReversed ==
    PayloadCall =>
        LET h == cache.hierarchy
            p == last.ret
        IN  /\ GroupsInOrder(p.groups, last.order)
            /\ {g.key : g \in SeqRange(p.groups)} = {g.key : g \in SeqRange(h.top_groups)}
            /\ Len(p.groups) = Len(h.top_groups)
            /\ \A i \in 1..Len(p.groups) :
                   /\ GroupsInOrder(p.groups[i].subgroups, last.order)
                   /\ \E j \in 1..Len(h.top_groups) :
                          /\ h.top_groups[j].key = p.groups[i].key
                          /\ SeqRange(h.top_groups[j].subgroups)
                                 = SeqRange(p.groups[i].subgroups)
                          /\ Len(h.top_groups[j].subgroups) = Len(p.groups[i].subgroups)
            /\ DOMAIN p.imagesByGroup = DOMAIN h.images_by_group
            /\ \A k \in DOMAIN p.imagesByGroup :
                   LET stored == PathsOf(h.images_by_group[k])
                       served == PathsOf(p.imagesByGroup[k])
                       n      == Len(stored)
                   IN  /\ Len(served) = n
                       /\ \A i \in 1..n :
                              served[i] = IF last.order = "desc" THEN stored[i]
                                          ELSE stored[n + 1 - i]

\* An ascending payload with several top groups, a top group of two subgroups
\* and a subgroup of two members.
C11_Witness ==
    /\ PayloadCall /\ last.order = "asc"
    /\ Len(last.ret.groups) >= 3
    /\ \E i \in 1..Len(last.ret.groups) : Len(last.ret.groups[i].subgroups) >= 2
    /\ \E k \in DOMAIN last.ret.imagesByGroup :
           /\ Len(last.ret.imagesByGroup[k]) >= 2
           /\ last.ret.imagesByGroup[k][1].path # cache.hierarchy.images_by_group[k][1].path

\* No entry without a date (dateValue 0) stands before an entry with one.
UndatedLast(entries) ==
    \A i, j \in 1..Len(entries) :
        i < j => ~(entries[i].dateValue = 0 /\ entries[j].dateValue # 0)

\* C12 as stated: in the payload of either order, the groups without a date
\* come after the dated groups, at both levels, and in every member list the
\* undated images come after the dated ones.
C12_UndatedAfterDatedInHierarchy ==
    PayloadCall =>
        /\ UndatedLast(last.ret.groups)
        /\ \A i \in 1..Len(last.ret.groups) : UndatedLast(last.ret.groups[i].subgroups)
        /\ \A k \in DOMAIN last.ret.imagesByGroup : UndatedLast(last.ret.imagesByGroup[k])

-----------------------------------------------------------------------------
(* SpecLabel: build_hierarchy over trees whose folders are named after      *)
(* dates in several ways                                                    *)

\* trip/2022-05-01/a.jpg
L1 == <<<<"t","r","i","p">>, <<"2","0","2","2","-","0","5","-","0","1">>, <<"a",".","j","p","g">>>>
\* 2021/12/25/b.jpg
L2 == <<<<"2","0","2","1">>, <<"1","2">>, <<"2","5">>, <<"b",".","j","p","g">>>>
\* May 1 2022/c.jpg
L3 == <<<<"M","a","y"," ","1"," ","2","0","2","2">>, <<"c",".","j","p","g">>>>
\* misc/d.jpg
L4 == <<<<"m","i","s","c">>, <<"d",".","j","p","g">>>>
\* 2022_5_1/e.jpg
L5 == <<<<"2","0","2","2","_","5","_","1">>, <<"e",".","j","p","g">>>>
\* trip/2021-02-29/f.jpg
L6 == <<<<"t","r","i","p">>, <<"2","0","2","1","-","0","2","-","2","9">>, <<"f",".","j","p","g">>>>
\* 7 jun 2021/20211224/g.jpg
L7 == <<<<"7"," ","j","u","n"," ","2","0","2","1">>, <<"2","0","2","1","1","2","2","4">>, <<"g",".","j","p","g">>>>

LabelFiles == {L1, L2, L3, L4, L5, L6, L7}

InitLabel ==
    /\ fs \in {[r \in Roots |-> IF r = "A" THEN S ELSE {}] : S \in SUBSET LabelFiles}
    /\ clock = StartTime
    /\ cache = EmptyCache
    /\ last = NoCall
    /\ chain = NoChain
    /\ th = NoThreads
    /\ ghost = NoGhost
    /\ disk = NoDisk

NextLabel == BuildHierarchy("A")

SpecLabel == InitLabel /\ [][NextLabel]_vars

HierarchyBuilt == last.op = "build_hierarchy" /\ last.rescanned

\* The label the claim gives a group: its date rendered if that is a date, else
\* its label rendered as a date if it parses as one, else its label.
ClaimedLabel(g) ==
    IF format_date_value(g.dateValue) # None THEN format_date_value(g.dateValue)
    ELSE IF format_display_date(g.label) # None THEN format_display_date(g.label)
    ELSE g.label

\* C13 as stated: every group, top-level or subgroup, carries the claimed label.
C13_EveryGroupLabelledFromItsDate ==
    HierarchyBuilt =>
        /\ \A g \in SeqRange(last.ret.top_groups) : g.formattedLabel = ClaimedLabel(g)
        /\ \A g \in AllSubgroups(last.ret) : g.formattedLabel = ClaimedLabel(g)

\* C13, amended: every subgroup carries the claimed label; a top group carries
\* its label rendered as a date if it parses as one, else its label, whatever
\* its date.
C13_SubgroupsFromDateTopGroupsFromLabel ==
    HierarchyBuilt =>
        /\ \A g \in AllSubgroups(last.ret) : g.formattedLabel = ClaimedLabel(g)
        /\ \A g \in SeqRange(last.ret.top_groups) :
               g.formattedLabel = IF format_display_date(g.label) # None
                                  THEN format_display_date(g.label) ELSE g.label

\* A hierarchy with a subgroup labelled from its date, one labelled from its
\* folder name, one left with its raw label, and a top group whose date is a
\* calendar date while its label is not.
C13_Witness ==
    /\ HierarchyBuilt
    /\ \E g \in AllSubgroups(last.ret) :
           /\ g.label = <<"1","2">> /\ g.dateValue = 20211225
           /\ g.formattedLabel = <<"D","e","c","e","m","b","e","r"," ","2","5",","," ","2","0","2","1">>
    /\ \E g \in AllSubgroups(last.ret) :
           /\ g.label = <<"2","0","2","1","-","0","2","-","2","9">>
           /\ g.formattedLabel = g.label
    /\ \E g \in SeqRange(last.ret.top_groups) :
           /\ g.label = <<"2","0","2","2","_","5","_","1">> /\ g.dateValue = 20220000
           /\ g.formattedLabel = <<"M","a","y"," ","1",","," ","2","0","2","2">>
    /\ \E g \in SeqRange(last.ret.top_groups) :
           /\ g.label = <<"t","r","i","p">> /\ g.dateValue = 20220501
           /\ g.formattedLabel = g.label

-----------------------------------------------------------------------------
(* C14: the sections of a timeline page                                     *)

TimelineCall == last.op = "timeline_sections"

\* The items the page must hold: the run of the sequence that starts at the
\* claimed start and has at most limit items.
PageItems == PySlice(last.seq, ClaimedStart(last.seq, last.cursor),
                     ClaimedStart(last.seq, last.cursor) + last.limit)

\* C14: on a non-empty timeline page no section is empty, the sections' items
\* concatenated are the page's items in sequence order, every item of a section
\* has the section's label, and adjacent sections have different labels.
C14_SectionsPartitionPageByLabelRuns ==
    (TimelineCall /\ Len(last.ret.sections) > 0) =>
        /\ \A i \in 1..Len(last.ret.sections) : Len(last.ret.sections[i].items) > 0
        /\ SectionPaths(last.ret.sections) = PageItems
        /\ \A i \in 1..Len(last.ret.sections) :
               \A k \in 1..Len(last.ret.sections[i].items) :
                   label_of(last.ret.sections[i].items[k].path) = last.ret.sections[i].label
        /\ \A i \in 1..(Len(last.ret.sections) - 1) :
               last.ret.sections[i].label # last.ret.sections[i + 1].label

\* A page on which one label heads two sections that are not adjacent.
C14_Witness ==
    /\ TimelineCall
    /\ Len(last.ret.sections) = 3
    /\ last.ret.sections[1].label = last.ret.sections[3].label
    /\ last.ret.sections[1].label # last.ret.sections[2].label
-----------------------------------------------------------------------------
(* Directory listing: iter_directories, iter_images, first_image_in_tree,   *)
(* next_folder_first_image, directory_payload.  Directories are segment     *)
(* lists, the root is the empty list.                                       *)

\* iter_directories(path): the non-ignored subdirectories by lower-cased name.
\* The entries named names of the directory path.
entries_of(path, names) == [i \in 1..Len(names) |-> Append(path, names[i])]

iter_directories(files, path) ==
    entries_of(path, SortedNames({d \in DirsIn(files, path) : ~is_ignored_name(d)}))

\* iter_images(path): the images directly in path by lower-cased name.
iter_images(files, path) ==
    entries_of(path, SortedNames({n \in FilesIn(files, path) : IsImageName(n)}))

NoPath == <<>>

\* first_image_in_tree(path); NoPath is None.
first_image_in_tree(files, path) ==
    IF Len(iter_images_recursive(files, path, 1)) > 0
    THEN iter_images_recursive(files, path, 1)[1]
    ELSE NoPath

RECURSIVE first_found(_, _, _)
\* for candidate in candidates[i:]: found = first_image_in_tree(candidate);
\* if found: return found -- NoPath when the loop ends.  i is a Python index.
first_found(files, candidates, i) ==
    IF i + 1 > Len(candidates) THEN NoPath
    ELSE IF first_image_in_tree(files, candidates[i + 1]) # NoPath
         THEN first_image_in_tree(files, candidates[i + 1])
         ELSE first_found(files, candidates, i + 1)

\* siblings.index(target), -1 where it raises ValueError.
sibling_index(siblings, target) ==
    IF \E i \in 1..Len(siblings) : siblings[i] = target
    THEN (CHOOSE i \in 1..Len(siblings) : siblings[i] = target) - 1
    ELSE 0 - 1

DirParent(path) == SubSeq(path, 1, Len(path) - 1)

RECURSIVE next_folder_first_image(_, _)
\* next_folder_first_image(root, target), target relative to the root.
next_folder_first_image(files, target) ==
    IF target = <<>>
    THEN first_found(files, iter_directories(files, <<>>), 0)
    ELSE IF first_found(files, iter_directories(files, DirParent(target)),
                        sibling_index(iter_directories(files, DirParent(target)), target) + 1)
            # NoPath
    THEN first_found(files, iter_directories(files, DirParent(target)),
                     sibling_index(iter_directories(files, DirParent(target)), target) + 1)
    ELSE IF DirParent(target) = <<>>
    THEN first_found(files, iter_directories(files, <<>>),
                     sibling_index(iter_directories(files, <<>>), <<>>) + 1)
    ELSE next_folder_first_image(files, DirParent(target))

\* build_breadcrumbs(root, target)
build_breadcrumbs(target) ==
    <<[name |-> <<"H","o","m","e">>, path |-> <<>>]>>
    \o [i \in 1..Len(target) |-> [name |-> target[i], path |-> JoinParts(SubSeq(target, 1, i))]]

directory_entry(files, directory) ==
    [name |-> directory[Len(directory)], path |-> JoinParts(directory),
     hasImages |-> Len(iter_images_recursive(files, directory, 1)) > 0]

\* The size of the file is not part of the model's file system.
image_entry(image_path) ==
    [name |-> image_path[Len(image_path)], path |-> JoinParts(image_path),
     dateHint |-> guess_date_hint(JoinParts(image_path))]

\* directory_payload(root, target) on a tree that stays as it is.
directory_payload(files, target) ==
    [path |-> JoinParts(target),
     breadcrumbs |-> build_breadcrumbs(target),
     directories |-> [i \in 1..Len(iter_directories(files, target)) |->
                         directory_entry(files, iter_directories(files, target)[i])],
     images |-> [i \in 1..Len(iter_images(files, target)) |->
                    image_entry(iter_images(files, target)[i])],
     totalImages |-> Len(iter_images(files, target)),
     nextFolderImage |-> JoinParts(next_folder_first_image(files, target))]

\* The directories of a tree: the root and every directory a file lies beneath.
DirectoriesOf(files) ==
    {SubSeq(f, 1, n) : <<f, n>> \in {p \in files \X (0..4) : p[2] < Len(p[1])}}

ListDirectory(root, target) ==
    /\ target \in DirectoriesOf(fs[root])
    /\ last' = [op |-> "directory_payload", root |-> root, target |-> target,
                ret |-> directory_payload(fs[root], target)]
    /\ UNCHANGED <<fs, clock, cache, chain, th, ghost, disk>>

DirFiles == {P1, P2, P3, P5, P7, P9, P10}

InitDir ==
    /\ fs \in {[r \in Roots |-> IF r = "A" THEN S ELSE {}] : S \in SUBSET DirFiles}
    /\ clock = StartTime
    /\ cache = EmptyCache
    /\ last = NoCall
    /\ chain = NoChain
    /\ th = NoThreads
    /\ ghost = NoGhost
    /\ disk = NoDisk

NextDir == \E target \in DirectoriesOf(DirFiles) : ListDirectory("A", target)

SpecDir == InitDir /\ [][NextDir]_vars

DirCall == last.op = "directory_payload"

\* The directories listed after d among its siblings, in listing order.
LaterSiblings(files, d) ==
    SelectSeq(iter_directories(files, DirParent(d)),
              LAMBDA s : LowerLess(d[Len(d)], s[Len(s)]))

RECURSIVE ClaimedCandidates(_, _)
\* The claimed search order: the siblings after the target, then the siblings
\* after each ancestor, nearest first; the root has none.
ClaimedCandidates(files, target) ==
    IF target = <<>> THEN <<>>
    ELSE LaterSiblings(files, target) \o ClaimedCandidates(files, DirParent(target))

\* C15 as stated, for a listed directory below the root: nextFolderImage is the
\* first image, depth first, of the first image-bearing directory in the claimed
\* search order, and absent if there is none.
C15_NextFolderImageFromLaterDirectories ==
    (/\ DirCall
     /\ last.target # <<>>
     /\ ~is_ignored_name(last.target[Len(last.target)])) =>
        last.ret.nextFolderImage =
            JoinParts(first_found(fs[last.root], ClaimedCandidates(fs[last.root], last.target), 0))
-----------------------------------------------------------------------------
(* Search: search_directories                                               *)

\* relative.lower().replace("-", "_")
search_haystack(relative) == ReplaceChar(Lower(relative), "-", "_")

\* needle in haystack
Contains(needle, haystack) ==
    \E i \in 0..(Len(haystack) - Len(needle)) :
        SubSeq(haystack, i + 1, i + Len(needle)) = needle

\* The order in which os.walk descends into the subdirectories of a directory
\* is the order of the directory listing, which search_directories leaves as it
\* is; two listing orders are modelled.
ListingOrders == {"forward", "backward"}

listed(names, listing) == IF listing = "forward" THEN names ELSE Reverse(names)

RECURSIVE walk_directories(_, _, _)
RECURSIVE walk_each(_, _, _)
\* The directories os.walk(root) visits, top-down, ignored names pruned.
walk_directories(files, dir, listing) ==
    <<dir>> \o walk_each(files, listed(iter_directories(files, dir), listing), listing)

\* os.walk, the descent into the subdirectories dirs of one directory.
walk_each(files, dirs, listing) ==
    ConcatAll([i \in 1..Len(dirs) |-> walk_directories(files, dirs[i], listing)])

\* for directory in sorted(dirs, key=str.lower): what is matched, and the
\* result it would contribute.
directory_matches(directories) ==
    [i \in 1..Len(directories) |->
        [haystack |-> search_haystack(JoinParts(directories[i])),
         name |-> directories[i][Len(directories[i])],
         path |-> JoinParts(directories[i])]]

\* The first loop's candidates over the directories visited.
candidates_under(files, visited) ==
    ConcatAll([v \in 1..Len(visited) |-> directory_matches(iter_directories(files, visited[v]))])

directory_candidates(files, listing) ==
    candidates_under(files, walk_directories(files, <<>>, listing))

\* str(image_path.parent.relative_to(root)): "." for the root itself.
parent_path(image_path) ==
    IF Len(image_path) = 1 THEN <<".">> ELSE JoinParts(DirParent(image_path))

\* image_path.parent.name; the root directory is named after the root.
parent_name(root, image_path) ==
    IF Len(image_path) = 1 THEN <<root>> ELSE image_path[Len(image_path) - 1]

\* for image_path in iter_images_recursive(root): what is matched, and the
\* result it would contribute.
image_matches(root, images) ==
    [i \in 1..Len(images) |->
        [haystack |-> search_haystack(JoinParts(images[i])),
         name |-> parent_name(root, images[i]),
         path |-> parent_path(images[i])]]

image_candidates(files, root) ==
    image_matches(root, iter_images_recursive(files, <<>>, NoLimit))

\* if path not in seen_paths: seen_paths.add(path); results.append({...})
add_unseen(results, candidate) ==
    IF \E k \in 1..Len(results) : results[k].path = candidate.path THEN results
    ELSE Append(results, [name |-> candidate.name, path |-> candidate.path])

results_of(matches) == [k \in 1..Len(matches) |-> [name |-> matches[k].name, path |-> matches[k].path]]

\* Variant: every candidate is collected, whatever the limit.
collect_unlimited(candidates, i, query, results, limit) ==
    results \o results_of(SelectSeq(candidates, LAMBDA c : Contains(query, c.haystack)))

RECURSIVE collect(_, _, _, _, _)
\* One of the two loops of search_directories from candidate i on: a match is
\* added unless seen, and the loop ends when limit results are held.
collect(candidates, i, query, results, limit) ==
    IF i > Len(candidates) THEN results
    ELSE IF ~Contains(query, candidates[i].haystack)
         THEN collect(candidates, i + 1, query, results, limit)
    ELSE IF Len(add_unseen(results, candidates[i])) >= limit
         THEN add_unseen(results, candidates[i])
    ELSE collect(candidates, i + 1, query, add_unseen(results, candidates[i]), limit)

\* The second loop runs if the first left fewer than limit results.
search_images(files, root, query, results, limit) ==
    IF Len(results) < limit
    THEN collect(image_candidates(files, root), 1, query, results, limit)
    ELSE results

\* search_directories(root, query, limit) under one listing order.
search_directories(files, root, query, limit, listing) ==
    IF Strip(query) = <<>> THEN <<>>
    ELSE search_images(files, root, search_haystack(Strip(query)),
             collect(directory_candidates(files, listing), 1, search_haystack(Strip(query)),
                     <<>>, limit),
             limit)

\* misc/k.PNG
S1 == <<<<"m","i","s","c">>, <<"k",".","P","N","G">>>>

\* 2022-05-01/a.jpg, 2022/k/05/b.jpg, misc/k.PNG, a.jpg, .h/e.jpg, misc/n.txt,
\* 2022/k/y/q.jpg
SearchFiles == {P1, P2, S1, P4, P6, P7, P9}

Queries == {<<"2","0","2","2">>, <<" ","K"," ">>, <<"0","5","_","0","1">>, <<"A",".","j","p","g">>,
            <<" "," ">>}

MaxSearchLimit == 3

InitSearch ==
    /\ fs \in {[r \in Roots |-> IF r = "A" THEN S ELSE {}] : S \in SUBSET SearchFiles}
    /\ clock = StartTime
    /\ cache = EmptyCache
    /\ last = NoCall
    /\ chain = NoChain
    /\ th = NoThreads
    /\ ghost = NoGhost
    /\ disk = NoDisk

Search(root, query, limit, listing) ==
    /\ last' = [op |-> "search_directories", root |-> root, query |-> query, limit |-> limit,
                ret |-> search_directories(fs[root], root, query, limit, listing)]
    /\ UNCHANGED <<fs, clock, cache, chain, th, ghost, disk>>

NextSearch ==
    \E query \in Queries, limit \in 1..MaxSearchLimit, listing \in ListingOrders :
        Search("A", query, limit, listing)

SpecSearch == InitSearch /\ [][NextSearch]_vars

SearchCall == last.op = "search_directories"

\* The query as the claim compares it: trimmed, case folded, '-' as '_'.
FoldedQuery == ReplaceChar(Lower(Strip(last.query)), "-", "_")

Folded(s) == ReplaceChar(Lower(s), "-", "_")

\* The non-ignored directories of the tree, as paths.
SearchableDirs ==
    {d \in DirectoriesOf(fs[last.root]) :
        d # <<>> /\ \A i \in 1..Len(d) : ~is_ignored_name(d[i])}

\* The images of the tree outside ignored directories, as segment lists.
SearchableImages ==
    {f \in fs[last.root] :
        IsImageName(f[Len(f)]) /\ \A i \in 1..(Len(f) - 1) : ~is_ignored_name(f[i])}

\* A result that is a directory whose name contains the query.
NamedLikeQuery(result) ==
    \E d \in SearchableDirs :
        result.path = JoinParts(d) /\ Contains(FoldedQuery, Folded(d[Len(d)]))

\* A result that is a directory whose relative path contains the query.
PathLikeQuery(result) ==
    \E d \in SearchableDirs :
        result.path = JoinParts(d) /\ Contains(FoldedQuery, Folded(JoinParts(d)))

\* A result that is the parent directory of an image whose path contains the query.
ParentOfMatchingImage(result) ==
    \E f \in SearchableImages :
        result.path = parent_path(f) /\ Contains(FoldedQuery, Folded(JoinParts(f)))

\* At most limit results, pairwise distinct paths, directory results (matched
\* by name or by path) before image-parent results.
SearchShape(by_name) ==
    /\ Len(last.ret) <= last.limit
    /\ \A i, j \in 1..Len(last.ret) : i # j => last.ret[i].path # last.ret[j].path
    /\ \E k \in 0..Len(last.ret) :
           /\ \A i \in 1..k : IF by_name THEN NamedLikeQuery(last.ret[i])
                                         ELSE PathLikeQuery(last.ret[i])
           /\ \A i \in (k + 1)..Len(last.ret) : ParentOfMatchingImage(last.ret[i])

-----------------------------------------------------------------------------
(* Thumbnails: extract_exif_thumbnail, thumbnail_cache_key,                 *)
(* thumbnail_cache_path, generate_thumbnail.  disk.files maps a file to its *)
(* stat and to what Pillow makes of its content; disk.cache_dir maps the    *)
(* file names in THUMBNAIL_CACHE_DIR to their bytes.                        *)

\* /r/a.jpg, a regular file, and /r/l.jpg, a symbolic link to it.
SourceFile == <<"/","r","/","a",".","j","p","g">>

SourceLink == <<"/","r","/","l",".","j","p","g">>

\* Path.resolve(): symbolic links followed.
resolve(path) == IF path = SourceLink THEN SourceFile ELSE path

\* What Pillow makes of a file's content: whether the image decodes, the value
\* of exif.thumbnail (None where there is none or the file does not open), and
\* the picture.
Contents ==
    {[decodes |-> TRUE,  exif_thumb |-> None, pixels |-> "x"],
     [decodes |-> FALSE, exif_thumb |-> None, pixels |-> "-"],
     [decodes |-> TRUE,  exif_thumb |-> <<"E","X","I","F">>, pixels |-> "x"]}

FileSizes == {1, 11}

FileTimes == {1, 11}

\* max_size as api_thumbnail clamps it: 32..1024.
MaxSizes == {32, 64}

\* extract_exif_thumbnail(image_path)
extract_exif_thumbnail(d, image_path) == d.files[resolve(image_path)].image.exif_thumb

\* f"{image_path.resolve()}|{stat.st_size}|{stat.st_mtime_ns}|{max_size}"
fingerprint_of(resolved, st_size, st_mtime_ns, max_size) ==
    resolved \o <<"|">> \o StrOfNat(st_size) \o <<"|">> \o StrOfNat(st_mtime_ns)
             \o <<"|">> \o StrOfNat(max_size)

\* hashlib.sha256(...).hexdigest(): a digest without collisions, kept as the
\* text it digests.
sha256_hexdigest(text) == <<"s","h","a","2","5","6",":">> \o text

\* Variant: the modification time is left out of the fingerprint.
thumbnail_cache_key_without_mtime(d, image_path, max_size) ==
    sha256_hexdigest(fingerprint_of(resolve(image_path),
                                    d.files[resolve(image_path)].stat.st_size, 0, max_size))

\* thumbnail_cache_key(image_path, max_size); stat() follows the link.
thumbnail_cache_key(d, image_path, max_size) ==
    sha256_hexdigest(fingerprint_of(resolve(image_path),
                                    d.files[resolve(image_path)].stat.st_size,
                                    d.files[resolve(image_path)].stat.st_mtime_ns, max_size))

\* thumbnail_cache_path(image_path, max_size), as the name in THUMBNAIL_CACHE_DIR.
thumbnail_cache_path(d, image_path, max_size) ==
    thumbnail_cache_key(d, image_path, max_size) \o <<".","j","p","g">>

\* The JPEG that the try block of generate_thumbnail leaves in the buffer.
jpeg_of(image, max_size) == <<"JPEG", image.pixels, max_size>>

Answer(data) == [data |-> data, content_type |-> "image/jpeg"]

\* A finished call: the files and the cache directory after it, what it
\* returned (None: <<>>), whether it decoded the image and whether it read the
\* cache directory.
Finished(d, ret, decoded, cache_read) ==
    [disk |-> d, ret |-> ret, decoded |-> decoded, cache_read |-> cache_read]

\* cache_file.write_bytes(data); written keeps, as history, the stat the file
\* had and the number of changes its stat had seen when the entry was written.
write_bytes(d, cache_file, data, image_path) ==
    [d EXCEPT !.cache_dir = [k \in DOMAIN @ \cup {cache_file} |->
                                IF k = cache_file THEN data ELSE @[k]],
              !.written = [k \in DOMAIN @ \cup {cache_file} |->
                                IF k = cache_file
                                THEN [stat |-> d.files[resolve(image_path)].stat,
                                      stat_changes |-> d.stat_changes]
                                ELSE @[k]]]

\* Variant: a failed decode leaves an empty cache file behind.
decode_and_store_leaves_file(d, image_path, max_size, cache_file) ==
    IF ~d.files[resolve(image_path)].image.decodes
    THEN Finished(write_bytes(d, cache_file, <<>>, image_path), None, TRUE, TRUE)
    ELSE Finished(write_bytes(d, cache_file,
                              jpeg_of(d.files[resolve(image_path)].image, max_size), image_path),
                  Answer(jpeg_of(d.files[resolve(image_path)].image, max_size)), TRUE, TRUE)

\* generate_thumbnail from the try block on.
decode_and_store(d, image_path, max_size, cache_file) ==
    IF ~d.files[resolve(image_path)].image.decodes
    THEN Finished(d, None, TRUE, TRUE)
    ELSE Finished(write_bytes(d, cache_file,
                              jpeg_of(d.files[resolve(image_path)].image, max_size), image_path),
                  Answer(jpeg_of(d.files[resolve(image_path)].image, max_size)), TRUE, TRUE)

\* Variant: the cache file is never found.
cached_or_generated_never_cached(d, image_path, max_size, cache_file) ==
    decode_and_store(d, image_path, max_size, cache_file)

\* generate_thumbnail from the cache lookup on.
cached_or_generated(d, image_path, max_size, cache_file) ==
    IF cache_file \in DOMAIN d.cache_dir
    THEN Finished(d, Answer(d.cache_dir[cache_file]), FALSE, TRUE)
    ELSE decode_and_store(d, image_path, max_size, cache_file)

\* generate_thumbnail(image_path, max_size)
generate_thumbnail(d, image_path, max_size) ==
    IF extract_exif_thumbnail(d, image_path) # None
    THEN Finished(d, Answer(extract_exif_thumbnail(d, image_path)), FALSE, FALSE)
    ELSE cached_or_generated(d, image_path, max_size,
                             thumbnail_cache_path(d, image_path, max_size))

MaxChanges == 2

FileStates ==
    {[stat |-> [st_size |-> z, st_mtime_ns |-> t], image |-> c] :
        z \in FileSizes, t \in FileTimes, c \in Contents}

InitThumb ==
    /\ fs = [r \in Roots |-> {}]
    /\ clock = StartTime
    /\ cache = EmptyCache
    /\ last = NoCall
    /\ chain = NoChain
    /\ th = NoThreads
    /\ ghost = NoGhost
    /\ disk \in {[files |-> [f \in {SourceFile} |-> [stat |-> [st_size |-> 1, st_mtime_ns |-> 1],
                                                      image |-> c]],
                  cache_dir |-> <<>>, written |-> <<>>, changes |-> 0,
                  stat_changes |-> 0] : c \in Contents}

\* One call of generate_thumbnail; the record keeps the cache file name it
\* would use and the cache directory it found.
GenerateThumbnail(image_path, max_size) ==
    \E r \in {generate_thumbnail(disk, image_path, max_size)} :
        /\ disk' = r.disk
        /\ last' = [op |-> "generate_thumbnail", image_path |-> image_path,
                    max_size |-> max_size, ret |-> r.ret, decoded |-> r.decoded,
                    cache_read |-> r.cache_read,
                    cache_file |-> thumbnail_cache_path(disk, image_path, max_size),
                    found |-> disk.cache_dir]
        /\ UNCHANGED <<fs, clock, cache, chain, th, ghost>>

\* The file is rewritten, touched or replaced: its stat, its content or both
\* become other ones.
ChangeFile(new) ==
    /\ disk.changes < MaxChanges
    /\ new # disk.files[SourceFile]
    /\ disk' = [disk EXCEPT !.files[SourceFile] = new, !.changes = @ + 1,
                             !.stat_changes = IF new.stat # disk.files[SourceFile].stat
                                              THEN @ + 1 ELSE @]
    /\ last' = NoCall
    /\ UNCHANGED <<fs, clock, cache, chain, th, ghost>>

NextThumb ==
    \/ \E image_path \in {SourceFile, SourceLink}, max_size \in MaxSizes :
           GenerateThumbnail(image_path, max_size)
    \/ \E new \in FileStates : ChangeFile(new)

SpecThumb == InitThumb /\ [][NextThumb]_vars


ThumbCall == last.op = "generate_thumbnail"

\* The file behind the path of the last call, as it is (a call changes no file).
Requested == disk.files[resolve(last.image_path)]

\* C17: a call that finds no embedded preview and no cache file and whose
\* decoding fails returns None and leaves THUMBNAIL_CACHE_DIR as it found it.
C17_FailedDecodeReturnsAbsentCacheUntouched ==
    (/\ ThumbCall
     /\ Requested.image.exif_thumb = None
     /\ last.cache_file \notin DOMAIN last.found
     /\ ~Requested.image.decodes) =>
        /\ last.ret = None
        /\ disk.cache_dir = last.found

\* A failed decode with thumbnails of the file's earlier states in the cache.
C17_Witness ==
    /\ ThumbCall
    /\ last.decoded
    /\ last.ret = None
    /\ ~Requested.image.decodes
    /\ DOMAIN disk.cache_dir # {}

\* The call was answered with the bytes of a cache file.
ServedFromCache == ThumbCall /\ last.cache_read /\ ~last.decoded /\ last.ret # None

KeyPaths == {SourceFile, SourceFile \o <<"|","1">>}

KeyTuples == KeyPaths \X FileSizes \X FileTimes \X MaxSizes

KeyOf(t) == sha256_hexdigest(fingerprint_of(t[1], t[2], t[3], t[4]))

\* C18 as stated, the consequence: a call is never answered with a cache file
\* written before the latest change of the file's size or mtime.
C18_NoEntryFromBeforeAChange ==
    ServedFromCache => disk.written[last.cache_file].stat_changes = disk.stat_changes

\* C18, amended: equal (resolved path, size, mtime, max dimension) give equal
\* keys and different ones different keys, the key of a call is the key of its
\* file's resolved path, size, mtime and max dimension, and a call is answered
\* with a cache file only if that was written for the size and mtime the file
\* has now and for the max dimension asked for.
C18_KeyOfPathSizeMtimeDimension ==
    /\ \A t1, t2 \in KeyTuples : (KeyOf(t1) = KeyOf(t2)) <=> (t1 = t2)
    /\ ThumbCall =>
           last.cache_file = KeyOf(<<resolve(last.image_path), Requested.stat.st_size,
                                     Requested.stat.st_mtime_ns, last.max_size>>)
                             \o <<".","j","p","g">>
    /\ ServedFromCache =>
           /\ disk.written[last.cache_file].stat = Requested.stat
           /\ last.ret.data[3] = last.max_size

\* A call answered from the cache after the file's stat changed and changed
\* back, and after a thumbnail of the other stat was cached too.
C18_Witness ==
    /\ ServedFromCache
    /\ disk.stat_changes = 2
    /\ disk.written[last.cache_file].stat_changes = 0
    /\ \E k \in DOMAIN disk.written : disk.written[k].stat # Requested.stat

\* C19: for a file without embedded preview, after a successful call the cache
\* holds the returned bytes under the call's key; a call that finds its cache
\* file returns its bytes without decoding and leaves the cache as it is; a
\* file with an embedded preview is answered with the preview, without reading
\* or writing the cache; and no call or change removes or alters a cache file.
C19_CachedBytesServedWithoutDecoding ==
    /\ [](ThumbCall =>
            /\ (Requested.image.exif_thumb = None /\ last.ret # None) =>
                   /\ last.cache_file \in DOMAIN disk.cache_dir
                   /\ disk.cache_dir[last.cache_file] = last.ret.data
            /\ (Requested.image.exif_thumb = None /\ last.cache_file \in DOMAIN last.found) =>
                   /\ last.ret = Answer(last.found[last.cache_file])
                   /\ ~last.decoded
                   /\ disk.cache_dir = last.found
            /\ Requested.image.exif_thumb # None =>
                   /\ last.ret = Answer(Requested.image.exif_thumb)
                   /\ ~last.decoded /\ ~last.cache_read
                   /\ disk.cache_dir = last.found)
    /\ [][\A k \in DOMAIN disk.cache_dir :
              k \in DOMAIN disk'.cache_dir /\ disk'.cache_dir[k] = disk.cache_dir[k]]_vars

\* A thumbnail asked for through the link and answered from the cache file that
\* a call through the file's own path wrote.
C19_Witness ==
    /\ ServedFromCache
    /\ last.image_path = SourceLink
    /\ Requested.image.exif_thumb = None
    /\ last.ret.data = <<"JPEG", "x", 64>>
    /\ Cardinality(DOMAIN disk.cache_dir) = 2

-----------------------------------------------------------------------------
(* SpecList: directory_payload taken one file-system access at a time,      *)
(* while directories and files disappear                                    *)

\* path.exists() for a directory; the root is always there.
DirExists(files, path) == path = <<>> \/ path \in DirectoriesOf(files)

\* misc/c.jpg, misc/2021/h.jpg, misc/n.txt, 2022-05-01/a.jpg, a.jpg
ListFiles == {P3, P10, P7, P1, P4}

InitList ==
    /\ fs \in {[r \in Roots |-> IF r = "A" THEN S ELSE {}] : S \in SUBSET ListFiles}
    /\ clock = StartTime
    /\ cache = EmptyCache
    /\ last = NoCall
    /\ chain = NoChain
    /\ th = NoThreads
    /\ ghost = NoGhost
    /\ disk = NoDisk

Listing(t) == t \in DOMAIN th

\* api_list found the target and calls directory_payload(root, target).
ListingCall(t, root, target) ==
    /\ DOMAIN th = {}
    /\ DirExists(fs[root], target)
    /\ th' = [u \in {t} |-> [pc |-> "iter_directories", root |-> root, target |-> target,
                             entries |-> <<>>, i |-> 1,
                             directories |-> <<>>, images |-> <<>>, next_image |-> NoPath]]
    /\ UNCHANGED <<fs, clock, cache, last, chain, ghost, disk>>

\* iter_directories(target), first step: sorted(path.iterdir()) raises
\* FileNotFoundError when the directory is gone.
ListSubdirectories(t) ==
    /\ Listing(t) /\ th[t].pc = "iter_directories"
    /\ th' = [th EXCEPT ![t] =
                IF ~DirExists(fs[th[t].root], th[t].target)
                THEN [@ EXCEPT !.pc = "raised"]
                ELSE [@ EXCEPT !.pc = "directory", !.i = 1,
                               !.entries = iter_directories(fs[th[t].root], th[t].target)]]
    /\ UNCHANGED <<fs, clock, cache, last, chain, ghost, disk>>

\* One round of the loop over iter_directories: entry.is_dir() is false for an
\* entry that is gone, and os.walk under it yields what is there.
VisitSubdirectory(t) ==
    /\ Listing(t) /\ th[t].pc = "directory"
    /\ th' = [th EXCEPT ![t] =
                IF th[t].i > Len(th[t].entries)
                THEN [@ EXCEPT !.pc = "iter_images"]
                ELSE IF ~DirExists(fs[th[t].root], th[t].entries[th[t].i])
                THEN [@ EXCEPT !.i = @ + 1]
                ELSE [@ EXCEPT !.i = @ + 1,
                               !.directories = Append(@, directory_entry(fs[th[t].root],
                                                                         th[t].entries[th[t].i]))]]
    /\ UNCHANGED <<fs, clock, cache, last, chain, ghost, disk>>

\* iter_images(target), first step: sorted(path.iterdir()) again.
ListImages(t) ==
    /\ Listing(t) /\ th[t].pc = "iter_images"
    /\ th' = [th EXCEPT ![t] =
                IF ~DirExists(fs[th[t].root], th[t].target)
                THEN [@ EXCEPT !.pc = "raised"]
                ELSE [@ EXCEPT !.pc = "is_file", !.i = 1,
                               !.entries = iter_images(fs[th[t].root], th[t].target)]]
    /\ UNCHANGED <<fs, clock, cache, last, chain, ghost, disk>>

\* entry.is_file(): false for an entry that is gone.
TestImage(t) ==
    /\ Listing(t) /\ th[t].pc = "is_file"
    /\ th' = [th EXCEPT ![t] =
                IF th[t].i > Len(th[t].entries)
                THEN [@ EXCEPT !.pc = "next_folder"]
                ELSE IF th[t].entries[th[t].i] \notin fs[th[t].root]
                THEN [@ EXCEPT !.i = @ + 1]
                ELSE [@ EXCEPT !.pc = "stat"]]
    /\ UNCHANGED <<fs, clock, cache, last, chain, ghost, disk>>

\* image_path.stat().st_size: raises FileNotFoundError when the file is gone.
StatImage(t) ==
    /\ Listing(t) /\ th[t].pc = "stat"
    /\ th' = [th EXCEPT ![t] =
                IF th[t].entries[th[t].i] \notin fs[th[t].root]
                THEN [@ EXCEPT !.pc = "raised"]
                ELSE [@ EXCEPT !.pc = "is_file", !.i = @ + 1,
                               !.images = Append(@, image_entry(th[t].entries[th[t].i]))]]
    /\ UNCHANGED <<fs, clock, cache, last, chain, ghost, disk>>

\* next_folder_first_image(root, target): iter_directories(target.parent)
\* raises when the parent is gone.
FindNextFolder(t) ==
    /\ Listing(t) /\ th[t].pc = "next_folder"
    /\ th' = [th EXCEPT ![t] =
                IF th[t].target # <<>> /\ ~DirExists(fs[th[t].root], DirParent(th[t].target))
                THEN [@ EXCEPT !.pc = "raised"]
                ELSE [@ EXCEPT !.pc = "return",
                               !.next_image = next_folder_first_image(fs[th[t].root], th[t].target)]]
    /\ UNCHANGED <<fs, clock, cache, last, chain, ghost, disk>>

\* directory_payload returns its dictionary, or the exception reaches
\* handle_api, which answers 404 without a listing.
ListingReturn(t) ==
    /\ Listing(t) /\ th[t].pc \in {"return", "raised"}
    /\ last' = [op |-> "directory_payload", root |-> th[t].root, target |-> th[t].target,
                raised |-> th[t].pc = "raised",
                ret |-> IF th[t].pc = "raised" THEN None
                        ELSE [path |-> JoinParts(th[t].target),
                              breadcrumbs |-> build_breadcrumbs(th[t].target),
                              directories |-> th[t].directories,
                              images |-> th[t].images,
                              totalImages |-> Len(th[t].images),
                              nextFolderImage |-> JoinParts(th[t].next_image)]]
    /\ th' = NoThreads
    /\ UNCHANGED <<fs, clock, cache, chain, ghost, disk>>

\* A directory, with all beneath it, or a file disappears.
Disappear(root, entry) ==
    /\ \E f \in fs[root] : IsPrefix(entry, f)
    /\ fs' = [fs EXCEPT ![root] = {f \in @ : ~IsPrefix(entry, f)}]
    /\ UNCHANGED <<clock, cache, last, chain, th, ghost, disk>>

NextList ==
    \/ \E target \in DirectoriesOf(ListFiles) : ListingCall("t1", "A", target)
    \/ ListSubdirectories("t1")
    \/ VisitSubdirectory("t1")
    \/ ListImages("t1")
    \/ TestImage("t1")
    \/ StatImage("t1")
    \/ FindNextFolder("t1")
    \/ ListingReturn("t1")
    \/ \E entry \in (DirectoriesOf(ListFiles) \ {<<>>}) \cup ListFiles : Disappear("A", entry)

SpecList == InitList /\ [][NextList]_vars

\* C20 as stated, for listDirectory: a listing during which directories or
\* files disappear completes with the entries that are left, never with an
\* error.
C20_ListingSurvivesDisappearance ==
    \A t \in DOMAIN th : th[t].pc # "raised"

-----------------------------------------------------------------------------
(* SpecRefresh: a client following nextCursor while the tree changes and    *)
(* the snapshot is rebuilt                                                  *)

\* t/u/2020/x.jpg, t/u/y.jpg, t/u/2020-06-01/z.jpg, t/u/w.jpg
RefreshFiles == {Q1, Q2, Q3, Q4}

InitRefresh ==
    /\ fs = [r \in Roots |-> IF r = "A" THEN RefreshFiles ELSE {}]
    /\ clock = StartTime
    /\ cache = EmptyCache
    /\ last = NoCall
    /\ chain = NoChain
    /\ th = NoThreads
    /\ ghost = NoGhost
    /\ disk = NoDisk

\* One file of the tree is deleted, or one is added to it, while a chain is
\* under way; the snapshot takes it in when it is rebuilt.
Mutate(f) ==
    /\ chain.active /\ ~chain.done
    /\ fs["A"] = RefreshFiles
    /\ fs' = [fs EXCEPT !["A"] = IF f \in @ THEN @ \ {f} ELSE @ \cup {f}]
    /\ UNCHANGED <<clock, cache, last, chain, th, ghost, disk>>

NextRefresh ==
    \/ \E order \in Orders, limit \in 1..MaxLimit :
           ChainStart("timeline_sections", None, order, limit)
    \/ \E order \in Orders, limit \in 1..MaxLimit :
           ChainStart("group_images_payload", KeyTU, order, limit)
    \/ ChainNext
    \/ Expire
    \/ \E f \in RefreshFiles \cup {Q5, Q6} : Mutate(f)

SpecRefresh == InitRefresh /\ [][NextRefresh]_vars

\* The client received some item twice.
ReceivedTwice ==
    \E i, j \in 1..Len(chain.got) : i # j /\ chain.got[i] = chain.got[j]

\* The chain ended and the client never received an item that was in the
\* sequence of the first call and is in the tree still.
NeverReceived ==
    /\ chain.done
    /\ \E i \in 1..Len(chain.base) :
           /\ \E f \in fs[chain.root] : JoinParts(f) = chain.base[i]
           /\ \A j \in 1..Len(chain.got) : chain.got[j] # chain.base[i]

\* C21: a client that received an item twice, or ended its chain without an
\* item that was there throughout, paged over a sequence that changed between
\* two of its calls.
C21_RepeatsAndGapsOnlyAcrossRefresh ==
    (chain.active /\ (ReceivedTwice \/ NeverReceived)) => ~chain.const

\* A chain over a tree of which the cursor's file was deleted: the snapshot
\* was rebuilt, the next page started over, and the client has an item twice.
C21_Witness ==
    /\ chain.active
    /\ ~chain.const
    /\ ReceivedTwice
    /\ fs["A"] # RefreshFiles
    /\ \A f \in RefreshFiles \ fs["A"] : \E i \in 1..Len(chain.got) : chain.got[i] = JoinParts(f)

-----------------------------------------------------------------------------
(* SpecMembers: build_hierarchy over a tree whose subgroups have members of *)
(* equal date                                                               *)

\* t/u/X.jpg
M1 == <<<<"t">>, <<"u">>, <<"X",".","j","p","g">>>>

MemberFiles == {Q1, Q2, Q3, Q4, Q5, M1}

InitMembers ==
    /\ fs \in {[r \in Roots |-> IF r = "A" THEN S ELSE {}] : S \in SUBSET MemberFiles}
    /\ clock = StartTime
    /\ cache = EmptyCache
    /\ last = NoCall
    /\ chain = NoChain
    /\ th = NoThreads
    /\ ghost = NoGhost
    /\ disk = NoDisk

NextMembers == BuildHierarchy("A")

SpecMembers == InitMembers /\ [][NextMembers]_vars

\* a stands before b by (hasDate desc, dateValue desc) or ties with it there.
DateNotAfter(a, b) ==
    \/ a.hasDate /\ ~b.hasDate
    \/ a.hasDate = b.hasDate /\ a.dateValue >= b.dateValue

SameDate(a, b) == a.hasDate = b.hasDate /\ a.dateValue = b.dateValue

\* The stored member lists of the hierarchy built last.
MemberLists == {last.ret.images_by_group[k] : k \in DOMAIN last.ret.images_by_group}

\* C22 as stated: every stored member list has dated members before undated
\* ones, newer dates before older ones, and members of equal (hasDate,
\* dateValue) in ascending path order.
C22_MembersByDateDescPathAsc ==
    HierarchyBuilt =>
        \A members \in MemberLists : \A i, j \in 1..Len(members) :
            i < j => /\ DateNotAfter(members[i], members[j])
                     /\ SameDate(members[i], members[j]) =>
                            StrLess(members[i].path, members[j].path)

\* C22, amended: dated members before undated ones, newer dates before older
\* ones, and members of equal (hasDate, dateValue) in descending order of
\* their lower-cased paths.
C22_MembersByDateDescPathDesc ==
    HierarchyBuilt =>
        \A members \in MemberLists : \A i, j \in 1..Len(members) :
            i < j => /\ DateNotAfter(members[i], members[j])
                     /\ SameDate(members[i], members[j]) =>
                            StrLess(Lower(members[j].path), Lower(members[i].path))

\* A subgroup whose undated members t/u/y.jpg, t/u/X.jpg, t/u/w.jpg stand in
\* this order behind a dated member.
C22_Witness ==
    /\ HierarchyBuilt
    /\ \E members \in MemberLists :
           /\ Len(members) >= 4
           /\ members[1].hasDate
           /\ members[Len(members) - 2].path = JoinParts(Q2)
           /\ members[Len(members) - 1].path = JoinParts(M1)
           /\ members[Len(members)].path = JoinParts(Q4)

-----------------------------------------------------------------------------
(* SpecThumbThreads: generate_thumbnail on two request threads, one access  *)
(* to the file system at a time                                             *)

ThumbIdle == [pc |-> "idle"]

InitThumbThreads ==
    /\ fs = [r \in Roots |-> {}]
    /\ clock = StartTime
    /\ cache = EmptyCache
    /\ last = NoCall
    /\ chain = NoChain
    /\ th = [t \in Threads |-> ThumbIdle]
    /\ ghost = NoGhost
    /\ disk \in {[files |-> [f \in {SourceFile} |-> [stat |-> [st_size |-> 1, st_mtime_ns |-> 1],
                                                      image |-> c]],
                  cache_dir |-> <<>>, written |-> <<>>, changes |-> 0,
                  stat_changes |-> 0] : c \in Contents}

\* api_thumbnail calls generate_thumbnail(image_path, max_size).
CallGenerateThumbnail(t, image_path, max_size) ==
    /\ th[t].pc = "idle"
    /\ th' = [th EXCEPT ![t] = [pc |-> "exif", image_path |-> image_path, max_size |-> max_size,
                                cache_file |-> None, data |-> None, offset |-> 0,
                                ret |-> None, from_cache |-> FALSE]]
    /\ UNCHANGED <<fs, clock, cache, last, chain, ghost, disk>>

\* exif_thumb = extract_exif_thumbnail(image_path); cache_file =
\* thumbnail_cache_path(image_path, max_size)
ReadExif(t) ==
    /\ th[t].pc = "exif"
    /\ th' = [th EXCEPT ![t] =
                IF extract_exif_thumbnail(disk, th[t].image_path) # None
                THEN [@ EXCEPT !.pc = "done",
                               !.ret = Answer(extract_exif_thumbnail(disk, th[t].image_path))]
                ELSE [@ EXCEPT !.pc = "exists",
                               !.cache_file = thumbnail_cache_path(disk, th[t].image_path,
                                                                   th[t].max_size)]]
    /\ UNCHANGED <<fs, clock, cache, last, chain, ghost, disk>>

\* if cache_file.exists():
TestCacheFile(t) ==
    /\ th[t].pc = "exists"
    /\ th' = [th EXCEPT ![t].pc = IF th[t].cache_file \in DOMAIN disk.cache_dir
                                  THEN "read_bytes" ELSE "decode"]
    /\ UNCHANGED <<fs, clock, cache, last, chain, ghost, disk>>

\* return cache_file.read_bytes(), "image/jpeg": what the file holds now.
ReadCacheFile(t) ==
    /\ th[t].pc = "read_bytes"
    /\ th' = [th EXCEPT ![t] = [@ EXCEPT !.pc = "done", !.from_cache = TRUE,
                                         !.ret = Answer(disk.cache_dir[th[t].cache_file])]]
    /\ UNCHANGED <<fs, clock, cache, last, chain, ghost, disk>>

\* The try block: the JPEG in the buffer, or return None.
Decode(t) ==
    /\ th[t].pc = "decode"
    /\ th' = [th EXCEPT ![t] =
                IF ~disk.files[resolve(th[t].image_path)].image.decodes
                THEN [@ EXCEPT !.pc = "done", !.ret = None]
                ELSE [@ EXCEPT !.pc = "open",
                               !.data = jpeg_of(disk.files[resolve(th[t].image_path)].image,
                                                th[t].max_size)]]
    /\ UNCHANGED <<fs, clock, cache, last, chain, ghost, disk>>

\* cache_file.write_bytes(data), first step: open(cache_file, "wb") creates the
\* file or truncates the one that is there.
OpenCacheFile(t) ==
    /\ th[t].pc = "open"
    /\ disk' = write_bytes(disk, th[t].cache_file, <<>>, th[t].image_path)
    /\ th' = [th EXCEPT ![t] = [@ EXCEPT !.pc = "write", !.offset = 0]]
    /\ UNCHANGED <<fs, clock, cache, last, chain, ghost>>

\* cache_file.write_bytes(data), the writes: the rest of the data arrives in the
\* file at the writer's offset, in one piece or in two.
WriteCacheFile(t, upto) ==
    /\ th[t].pc = "write"
    /\ upto > th[t].offset
    /\ disk' = write_bytes(disk, th[t].cache_file,
                           [i \in 1..(IF Len(disk.cache_dir[th[t].cache_file]) > upto
                                      THEN Len(disk.cache_dir[th[t].cache_file]) ELSE upto) |->
                               IF i > th[t].offset /\ i <= upto THEN th[t].data[i]
                               ELSE IF i <= Len(disk.cache_dir[th[t].cache_file])
                                    THEN disk.cache_dir[th[t].cache_file][i]
                                    ELSE 0],
                           th[t].image_path)
    /\ th' = [th EXCEPT ![t] =
                IF upto = Len(th[t].data)
                THEN [@ EXCEPT !.pc = "done", !.offset = upto, !.ret = Answer(th[t].data)]
                ELSE [@ EXCEPT !.offset = upto]]
    /\ UNCHANGED <<fs, clock, cache, last, chain, ghost>>

\* generate_thumbnail returns.
ThumbnailReturn(t) ==
    /\ th[t].pc = "done"
    /\ last' = [op |-> "generate_thumbnail", image_path |-> th[t].image_path,
                max_size |-> th[t].max_size, ret |-> th[t].ret,
                from_cache |-> th[t].from_cache]
    /\ th' = [th EXCEPT ![t] = ThumbIdle]
    /\ UNCHANGED <<fs, clock, cache, chain, ghost, disk>>

NextThumbThreads ==
    \E t \in Threads :
        \/ \E max_size \in MaxSizes : CallGenerateThumbnail(t, SourceFile, max_size)
        \/ ReadExif(t)
        \/ TestCacheFile(t)
        \/ ReadCacheFile(t)
        \/ Decode(t)
        \/ OpenCacheFile(t)
        \/ \E upto \in 1..Len(jpeg_of(disk.files[SourceFile].image, 32)) :
               WriteCacheFile(t, upto)
        \/ ThumbnailReturn(t)

SpecThumbThreads == InitThumbThreads /\ [][NextThumbThreads]_vars

\* C23 as stated: a call that found its cache file returns the complete bytes
\* of one encoding of the image at the size asked for.
C23_CacheReadersGetCompleteBytes ==
    (last.op = "generate_thumbnail" /\ last.from_cache) =>
        last.ret = Answer(jpeg_of(disk.files[resolve(last.image_path)].image, last.max_size))

-----------------------------------------------------------------------------
(* SpecIgnore: every scanning operation over a tree with hidden and trash   *)
(* directories                                                              *)

\* misc/.t/x.jpg
G1 == <<<<"m","i","s","c">>, <<".","t">>, <<"x",".","j","p","g">>>>
\* .h/s/y.jpg
G2 == <<<<".","h">>, <<"s">>, <<"y",".","j","p","g">>>>
\* .h/r/z.jpg
G3 == <<<<".","h">>, <<"r">>, <<"z",".","j","p","g">>>>
\* misc/.Trash-1000/w.jpg
G4 == <<<<"m","i","s","c">>, <<".","T","r","a","s","h","-","1","0","0","0">>, <<"w",".","j","p","g">>>>

\* misc/.t/x.jpg, .h/s/y.jpg, .h/r/z.jpg, misc/c.jpg, misc/2021/h.jpg,
\* misc/.Trash-1000/w.jpg
IgnoreFiles == {G1, G2, G3, P3, P10, G4}

InitIgnore ==
    /\ fs \in {[r \in Roots |-> IF r = "A" THEN S ELSE {}] : S \in SUBSET IgnoreFiles}
    /\ clock = StartTime
    /\ cache = EmptyCache
    /\ last = NoCall
    /\ chain = NoChain
    /\ th = NoThreads
    /\ ghost = NoGhost
    /\ disk = NoDisk

MaxWalkLimit == 2

\* iter_images_recursive(path, limit) consumed to its end.
WalkImages(root, path, limit) ==
    /\ path \in DirectoriesOf(fs[root])
    /\ last' = [op |-> "iter_images_recursive", root |-> root, path |-> path, limit |-> limit,
                ret |-> iter_images_recursive(fs[root], path, limit)]
    /\ UNCHANGED <<fs, clock, cache, chain, th, ghost, disk>>

NextIgnore ==
    \/ \E order \in Orders : SortedImagePaths("A", order)
    \/ BuildHierarchy("A")
    \/ \E query \in {<<".">>, <<"T">>}, listing \in ListingOrders :
           Search("A", query, MaxSearchLimit, listing)
    \/ \E target \in DirectoriesOf(IgnoreFiles) : ListDirectory("A", target)
    \/ \E path \in DirectoriesOf(IgnoreFiles), limit \in {NoLimit} \cup (1..MaxWalkLimit) :
           WalkImages("A", path, limit)

SpecIgnore == InitIgnore /\ [][NextIgnore]_vars

\* A name that starts with '.' or is in the ignore set.
IgnoredSegment(name) ==
    \/ Len(name) > 0 /\ name[1] = "."
    \/ name = <<".","T","r","a","s","h","-","1","0","0","0">>

\* No segment of parts from position from + 1 to position upto is ignored.
CleanBetween(parts, from, upto) ==
    \A i \in (from + 1)..upto : ~IgnoredSegment(parts[i])

\* The images under directory that a walk which skips ignored directories finds.
ReachableImages(files, directory) ==
    {f \in files : /\ IsPrefix(directory, f)
                   /\ IsImageName(f[Len(f)])
                   /\ CleanBetween(f, Len(directory), Len(f) - 1)}

\* C24: no image path yielded by a walk has an ignored directory segment below
\* the directory the walk started from, a walk with limit n >= 1 yields at most
\* n images, and so no path of the flat list, of the hierarchy, of the search
\* results, of a listing's directories or of its nextFolderImage has an ignored
\* directory segment that the walk would have had to enter, and hasImages is
\* true only for a directory with an image outside ignored directories.
C24_IgnoredDirectoriesNeverEntered ==
    /\ last.op = "iter_images_recursive" =>
           /\ \A i \in 1..Len(last.ret) :
                  CleanBetween(last.ret[i], Len(last.path), Len(last.ret[i]) - 1)
           /\ last.limit >= 1 => Len(last.ret) <= last.limit
    /\ last.op = "sorted_image_paths" =>
           \A i \in 1..Len(last.ret) :
               CleanBetween(Parts(last.ret[i]), 0, Len(Parts(last.ret[i])) - 1)
    /\ last.op = "build_hierarchy" =>
           \A k \in DOMAIN last.ret.images_by_group :
               \A i \in 1..Len(last.ret.images_by_group[k]) :
                   CleanBetween(Parts(last.ret.images_by_group[k][i].path), 0,
                                Len(Parts(last.ret.images_by_group[k][i].path)) - 1)
    /\ last.op = "search_directories" =>
           \A i \in 1..Len(last.ret) :
               last.ret[i].path # <<".">> =>
                   CleanBetween(Parts(last.ret[i].path), 0, Len(Parts(last.ret[i].path)))
    /\ last.op = "directory_payload" =>
           /\ \A i \in 1..Len(last.ret.directories) :
                  /\ CleanBetween(Parts(last.ret.directories[i].path), Len(last.target),
                                  Len(Parts(last.ret.directories[i].path)))
                  /\ last.ret.directories[i].hasImages <=>
                         \E f \in ReachableImages(fs[last.root], last.target) :
                             f[Len(last.target) + 1] = last.ret.directories[i].name
           /\ \A i \in 1..(Len(Parts(last.ret.nextFolderImage)) - 1) :
                  IgnoredSegment(Parts(last.ret.nextFolderImage)[i]) =>
                      /\ i <= Len(last.target)
                      /\ Parts(last.ret.nextFolderImage)[i] = last.target[i]

\* The root listed while misc holds images in .t and .Trash-1000 only: misc is
\* listed without images and no next folder image is offered.
C24_Witness ==
    /\ last.op = "directory_payload"
    /\ last.target = <<>>
    /\ {G1, G4} \subseteq fs["A"]
    /\ G2 \in fs["A"]
    /\ Len(last.ret.directories) = 1
    /\ ~last.ret.directories[1].hasImages
    /\ last.ret.nextFolderImage = None

-----------------------------------------------------------------------------
(* SpecDate: _extract_date_value applied to paths built from a prefix, a    *)
(* year-like run, a month-like run and a day-like run                       *)

DatePrefixes == {<<>>, <<"x">>, <<"1","2","-">>, <<"1","9","9","9","/">>}
DateYears == {<<"2","0","2","0">>, <<"1","9","0","1">>, <<"2","1","0","0">>,
              <<"2","0","2","0","1">>, <<"2","0","2">>, <<"a">>}
DateGaps == {<<"-">>, <<"/","a","_">>}
DateMonths == {<<>>, <<"0","0">>, <<"0","1">>, <<"1","2">>, <<"1","3">>, <<"7">>,
               <<"1","2","3">>}
DateDays == {<<>>, <<"0","0">>, <<"3","1">>, <<"3","2">>, <<"5">>}

DateTexts ==
    {p \o y \o g \o mo \o <<"-">> \o d \o <<".","j","p","g">> :
        p \in DatePrefixes, y \in DateYears, g \in DateGaps, mo \in DateMonths, d \in DateDays}

\* The paths the order of values is compared on.
OtherTexts == {<<"a",".","j","p","g">>,
               <<"2","0","2","0","/","a",".","j","p","g">>,
               <<"2","0","2","0","-","0","1","-","3","1",".","j","p","g">>,
               <<"1","9","9","9","_","1","2",".","j","p","g">>}

InitDate ==
    /\ fs = [r \in Roots |-> {}]
    /\ clock = StartTime
    /\ cache = EmptyCache
    /\ last = NoCall
    /\ chain = NoChain
    /\ th = NoThreads
    /\ ghost = NoGhost
    /\ disk = NoDisk

ExtractDateValue(text, other) ==
    /\ last = NoCall
    /\ last' = [op |-> "extract_date_value", text |-> text, other |-> other,
                ret |-> extract_date_value(text),
                other_ret |-> extract_date_value(other)]
    /\ UNCHANGED <<fs, clock, cache, chain, th, ghost, disk>>

NextDate == \E text \in DateTexts, other \in OtherTexts : ExtractDateValue(text, other)

SpecDate == InitDate /\ [][NextDate]_vars

IsDecimal(c) == c \in {"0","1","2","3","4","5","6","7","8","9"}

\* The positions where a maximal digit run of text starts.
RunStarts(text) ==
    {a \in 1..Len(text) : IsDecimal(text[a]) /\ (a = 1 \/ ~IsDecimal(text[a - 1]))}

\* The maximal digit run of text that starts at position a.
RunAt(text, a) ==
    LET b == CHOOSE e \in a..Len(text) :
                 /\ \A i \in a..e : IsDecimal(text[i])
                 /\ e = Len(text) \/ ~IsDecimal(text[e + 1])
    IN  SubSeq(text, a, b)

DecimalValue(c) ==
    CASE c = "0" -> 0 [] c = "1" -> 1 [] c = "2" -> 2 [] c = "3" -> 3 [] c = "4" -> 4
      [] c = "5" -> 5 [] c = "6" -> 6 [] c = "7" -> 7 [] c = "8" -> 8 [] c = "9" -> 9

\* The number a run of at most four digits writes.
RunValue(run) ==
    IF Len(run) = 4
    THEN 1000 * DecimalValue(run[1]) + 100 * DecimalValue(run[2])
         + 10 * DecimalValue(run[3]) + DecimalValue(run[4])
    ELSE IF Len(run) = 2 THEN 10 * DecimalValue(run[1]) + DecimalValue(run[2])
    ELSE 0

YearStarts(text) ==
    {a \in RunStarts(text) :
        /\ Len(RunAt(text, a)) = 4
        /\ SubSeq(RunAt(text, a), 1, 2) \in {<<"1","9">>, <<"2","0">>}}

\* The start of the run that follows the run starting at a, 0 when none does.
FollowingStart(text, a) ==
    IF a = 0 \/ {s \in RunStarts(text) : s > a} = {} THEN 0
    ELSE CHOOSE s \in RunStarts(text) : s > a /\ \A u \in RunStarts(text) : u > a => s <= u

\* The run starting at a as a month or day number: its value when it has two
\* digits and lies in 1..upto, else 0.
PartAt(text, a, upto) ==
    IF a # 0 /\ Len(RunAt(text, a)) = 2 /\ RunValue(RunAt(text, a)) \in 1..upto
    THEN RunValue(RunAt(text, a))
    ELSE 0

\* The year, month and day the rule reads from text; year 0 when there is no
\* year run.
ClaimedDate(text) ==
    IF YearStarts(text) = {} THEN [year |-> 0, month |-> 0, day |-> 0]
    ELSE LET y  == CHOOSE a \in YearStarts(text) : \A u \in YearStarts(text) : a <= u
             ms == FollowingStart(text, y)
             ds == FollowingStart(text, ms)
             mo == PartAt(text, ms, 12)
         IN  [year |-> RunValue(RunAt(text, y)), month |-> mo,
              day |-> IF mo = 0 THEN 0 ELSE PartAt(text, ds, 31)]

\* d is a date before e, year first, then month, then day.
Earlier(d, e) ==
    \/ d.year < e.year
    \/ d.year = e.year /\ d.month < e.month
    \/ d.year = e.year /\ d.month = e.month /\ d.day < e.day

\* C25: the value is 10000 * year + 100 * month + day for the first run of four
\* digits starting 19 or 20, the following run as month when it has two digits
\* and value 1..12, and the run after it as day when the month was taken and it
\* has two digits and value 1..31; without a year run the result is (false, 0);
\* has_date holds exactly when the value is not zero, no day is set without a
\* month, and values compare as their dates do.
C25_ValueIsYearMonthDay ==
    last.op = "extract_date_value" =>
        /\ last.ret.has_date <=> ClaimedDate(last.text).year # 0
        /\ last.ret.value = 10000 * ClaimedDate(last.text).year
                            + 100 * ClaimedDate(last.text).month
                            + ClaimedDate(last.text).day
        /\ last.ret.has_date <=> last.ret.value # 0
        /\ last.ret.value % 100 # 0 => (last.ret.value \div 100) % 100 # 0
        /\ last.ret.value < last.other_ret.value <=>
               Earlier(ClaimedDate(last.text), ClaimedDate(last.other))

\* 12-2020-13-31.jpg: the run before the year is passed over, 13 is no month,
\* and 31 is not taken as the day.
C25_Witness ==
    /\ last.op = "extract_date_value"
    /\ last.text = <<"1","2","-","2","0","2","0","-","1","3","-","3","1",".","j","p","g">>
    /\ last.ret = [has_date |-> TRUE, value |-> 20200000]
    /\ last.other_ret = [has_date |-> TRUE, value |-> 20200131]

-----------------------------------------------------------------------------
(* The cache slot's root, timestamp and payload as one triple (checked      *)
(* under SpecThreads)                                                       *)

\* C26 as stated: a call answered from the cache returns a payload that was
\* scanned from the root it asked for: the root, the timestamp and the payload
\* it read were written by one rebuild.
C26_CacheHitServesRequestedRoot ==
    /\ (last.op = "sorted_image_paths" /\ ~last.rescanned) =>
           IsPermutationOf(last.ret, ExpectedImages(fs[last.root]))
    /\ (last.op = "build_hierarchy" /\ ~last.rescanned) =>
           HierarchyPaths(last.ret) = ExpectedImages(fs[last.root])

=============================================================================
